---- MODULE Spec2Model ----
(***************************************************************************)
(* Palette-Generator: the colour-space converter (hexToHsl, hslToHex,      *)
(* normalizeHue), the harmony generator (generatePalette) and the App      *)
(* component that calls it, as found in src/unnamed/part_001; the          *)
(* accessibility metrics and colour utilities of                           *)
(* src/src/store/useThemeStore.ts and src/src/lib/utils.ts; and the        *)
(* ColorPaletteGenerator component of src/unnamed/part_004, its palette    *)
(* import included, with the ThemeProvider of                              *)
(* src/src/contexts/ThemeContext.tsx; the header button of                 *)
(* src/src/App.tsx; debounce and copyToClipboard of src/src/lib/utils.ts;  *)
(* and the ColorCard of src/src/components/ColorCard.tsx.                  *)
(*                                                                         *)
(* Strings are sequences of one-character strings, so that length, case    *)
(* and equality of hex strings behave as in the source.  Numbers are kept  *)
(* as exact integers: every Math.round(x) of the source is computed from   *)
(* the exact rational value of x (numerator and denominator), ties going   *)
(* up as Math.round does.  Where the IEEE-754 double evaluation of the     *)
(* source lands just below a half-integer whose exact value is the         *)
(* half-integer, the source rounds down; for hslToHex those arguments are  *)
(* tabulated (PBelowHalf, QBelowHalf, RampBelowHalf), and for hexToHsl     *)
(* the channel values are (SatBelowHalf, HueBelowHalf).                    *)
(***************************************************************************)
EXTENDS Integers, Sequences, FiniteSets, TLC

VARIABLES
    baseHex,      \* generatePalette: argument baseHex
    scheme,       \* generatePalette: argument scheme
    palette,      \* the list returned by the call
    pc,           \* "call" before the call, "done" after generatePalette,
                  \* "memo" after the App's palette callback
    convHex,      \* converter round trip: the hex string converted
    convHsl,      \* hexToHsl(convHex)
    convBack,     \* hslToHex(convHsl.h, convHsl.s, convHsl.l)
    convPc,       \* "hex", "hsl" or "back"
    callee,       \* a function called on its own: its name
    callArgs,     \* its arguments
    callResult,   \* the value it returned
    callPc,       \* "idle", "call" before the call, "returned" after it
    baseColor,        \* ColorPaletteGenerator: state baseColor
    schemeType,       \* state schemeType
    generatedPalette, \* state generatedPalette
    currentPalette,   \* state currentPalette of the component
    themePalette,     \* ThemeProvider: state currentPalette
    palettes,         \* ThemeProvider: state palettes
    effectPending,    \* the palette effect is due: a dependency changed
    lastEvent,        \* the handler or effect that ran last
    eventCount,       \* number of handlers run so far
    paletteName,      \* state paletteName: the text of the name field
    isEditingName,    \* state isEditingName
    showSaveSuccess,  \* state showSaveSuccess
    saveTimers,       \* timers set by handleSavePalette and not yet fired
    activeTab,        \* state activeTab: "current" or "saved"
    darkMode,          \* ThemeProvider: state darkMode
    localDarkMode,     \* localStorage item 'darkMode': "null", "true", "false"
    rootDark,          \* document root carries the class 'dark'
    darkEffectPending, \* the darkMode effect is due
    storeDarkMode,     \* useThemeStore: state darkMode
    storePalettes,     \* useThemeStore: state palettes
    storeCurrentPalette, \* useThemeStore: state currentPalette
    clock,             \* the clock read by Date.now() and new Date()
    lastOp,            \* the provider or store operation that ran last
    opCount,           \* number of operations run so far
    dbWait,            \* debounce: argument wait, in milliseconds
    dbTimeout,         \* the closure variable timeout: a timer id, 0 for null
    dbTimers,          \* the timers set and not yet fired or cleared
    dbNextId,          \* the id the next setTimeout returns
    dbNow,             \* the time, in milliseconds
    dbLog,             \* the calls of the debounced function and the runs
                       \* of func, in order
    importReaders,     \* handleImportPalette: the files the FileReaders
                       \* that have not delivered yet are reading, in the
                       \* order the readers were created
    importRead,        \* the FileReader that delivered last, [state, file]
    cardColor,         \* ColorCard: prop color
    copied,            \* state copied
    showTooltip,       \* state showTooltip
    clipboard,         \* the text on the clipboard
    cardCopies,        \* calls of copyToClipboard not yet settled
    cardTimers,        \* due times of the timers set by handleCopy
    cardNow,           \* the time, in milliseconds
    cardLast,          \* what happened last, and how the promise settled
    cardClicks         \* number of clicks on the copy button so far

vars == <<baseHex, scheme, palette, pc, convHex, convHsl, convBack, convPc,
          callee, callArgs, callResult, callPc,
          baseColor, schemeType, generatedPalette, currentPalette,
          themePalette, palettes, effectPending, lastEvent, eventCount,
          paletteName, isEditingName, showSaveSuccess, saveTimers, activeTab,
          darkMode, localDarkMode, rootDark, darkEffectPending,
          storeDarkMode, storePalettes, storeCurrentPalette, clock, lastOp,
          opCount,
          dbWait, dbTimeout, dbTimers, dbNextId, dbNow, dbLog,
          importReaders, importRead,
          cardColor, copied, showTooltip, clipboard, cardCopies, cardTimers,
          cardNow, cardLast, cardClicks>>

genVars == <<baseHex, scheme, palette, pc>>
convVars == <<convHex, convHsl, convBack, convPc>>
callVars == <<callee, callArgs, callResult, callPc>>
editVars == <<paletteName, isEditingName, showSaveSuccess, saveTimers,
              activeTab>>
uiVars == <<baseColor, schemeType, generatedPalette, currentPalette,
            themePalette, palettes, effectPending, lastEvent, eventCount,
            editVars>>
appVars == <<darkMode, localDarkMode, rootDark, darkEffectPending,
             storeDarkMode, storePalettes, storeCurrentPalette, clock, lastOp,
             opCount>>
dbVars == <<dbWait, dbTimeout, dbTimers, dbNextId, dbNow, dbLog>>
importVars == <<importReaders, importRead>>
cardVars == <<cardColor, copied, showTooltip, clipboard, cardCopies,
             cardTimers, cardNow, cardLast, cardClicks>>

-----------------------------------------------------------------------------
(* Characters and strings                                                  *)

UpperDigits == <<"0","1","2","3","4","5","6","7","8","9","A","B","C","D","E","F">>
LowerDigits == <<"0","1","2","3","4","5","6","7","8","9","a","b","c","d","e","f">>

IsHexDigit(c) == \E i \in 1..16 : UpperDigits[i] = c \/ LowerDigits[i] = c

DigitVal(c) == (CHOOSE i \in 1..16 : UpperDigits[i] = c \/ LowerDigits[i] = c) - 1

\* Stand for the NaN and the Infinity of JavaScript numbers; every finite
\* number the model computes lies strictly between the two.
NaN == -2000000000
Infinity == 2000000000

IsNaN(x) == x = NaN

\* A character that cannot be written in a string of this module (one
\* above U+00FF whose code point has a low byte below 80) is written by
\* its code point, as in "U+2028"; such an element is one character.

\* The white space and the line terminators of JavaScript, which parseInt
\* skips (StrWhiteSpaceChar) and trim removes: space, tab, line feed,
\* U+000B (vertical tab), form feed, carriage return, U+00A0 (no-break
\* space), U+1680, U+2000 .. U+200A, U+2028, U+2029, U+202F, U+205F,
\* U+3000 and U+FEFF.
WhiteSpace == {
    " ", "\t", "\n", "", "\f", "\r", " ", " ",
    "U+2000", "U+2001", "U+2002", "U+2003", "U+2004", "U+2005", "U+2006", "U+2007", "U+2008", "U+2009", "U+200A",
    "U+2028", "U+2029", "U+202F", "U+205F", "U+3000", "﻿" }

\* parseInt(c1 + c2, 16) on a string of at most two characters (c2 = "" or
\* both = "" past the end of the string): leading white space is skipped,
\* one sign is taken, a 0x or 0X prefix is dropped, and the longest prefix
\* of hex digits of what remains is the value; NaN when that prefix is
\* empty.  "-0" gives -0, which every caller treats as 0.
parseInt16(c1, c2) ==
    IF c1 \in WhiteSpace \/ c1 = "+"
    THEN IF IsHexDigit(c2) THEN DigitVal(c2) ELSE NaN
    ELSE IF c1 = "-"
    THEN IF IsHexDigit(c2) THEN 0 - DigitVal(c2) ELSE NaN
    ELSE IF ~IsHexDigit(c1) THEN NaN
    ELSE IF c1 = "0" /\ c2 \in {"x", "X"} THEN NaN
    ELSE IF ~IsHexDigit(c2) THEN DigitVal(c1)
    ELSE 16 * DigitVal(c1) + DigitVal(c2)

\* /^#([0-9A-F]{3}){1,2}$/i.test(str)
IsValidHex(str) ==
    /\ Len(str) \in {4, 7}
    /\ str[1] = "#"
    /\ \A i \in 2..Len(str) : IsHexDigit(str[i])

-----------------------------------------------------------------------------
(* Math helpers                                                            *)

Max2(a, b) == IF a >= b THEN a ELSE b
Min2(a, b) == IF a <= b THEN a ELSE b

\* Math.min(x + k, hi) and Math.max(x + k, lo); x is a number, Infinity or
\* NaN.  NaN propagates through the sum and through Math.min / Math.max,
\* Infinity + k is Infinity.
MinPlus(x, k, hi) ==
    IF IsNaN(x) THEN NaN ELSE IF x = Infinity THEN hi ELSE Min2(x + k, hi)
MaxPlus(x, k, lo) ==
    IF IsNaN(x) THEN NaN ELSE IF x = Infinity THEN Infinity
    ELSE Max2(x + k, lo)

\* Math.round(n / d) for d # 0: nearest integer, ties towards +Infinity.
RoundDiv(n, d) ==
    IF d > 0 THEN (2 * n + d) \div (2 * d)
             ELSE (0 - 2 * n - d) \div (0 - 2 * d)

\* a % n of JavaScript (sign of the dividend), n > 0.
JsRem(a, n) == IF a >= 0 THEN a % n ELSE 0 - ((0 - a) % n)

-----------------------------------------------------------------------------
(* hexToHsl                                                                *)

\* The source evaluates hexToHsl in double arithmetic and rounds h * 360,
\* s * 100 and l * 100 with Math.round.  Where the exact value is a
\* half-integer the double value can lie just below it, and Math.round then
\* gives the integer below; these inputs are tabulated (complete for the
\* channels parseInt yields, -15..255).  l * 100 has no such input.

\* Pairs <<max, min>> of the largest and the smallest channel on which the
\* double value of s * 100 lies just below its exact half-integer value.
SatBelowHalf == {
    <<65,15>>, <<69,11>>, <<77,35>>, <<81,-1>>, <<81,63>>, <<89,-9>>,
    <<105,7>>, <<117,91>>, <<121,55>>, <<129,111>>, <<130,30>>, <<138,22>>,
    <<138,132>>, <<144,126>>, <<147,93>>, <<153,87>>, <<154,70>>, <<162,-2>>,
    <<162,108>>, <<168,102>>, <<171,147>>, <<177,173>>, <<178,156>>, <<185,165>>,
    <<187,-11>>, <<192,174>>, <<193,157>>, <<195,13>>, <<195,45>>, <<195,123>>,
    <<199,183>>, <<200,134>>, <<201,149>>, <<209,141>>, <<210,14>>, <<210,60>>,
    <<210,156>>, <<216,214>>, <<218,212>>, <<219,99>>, <<224,206>>, <<225,189>>,
    <<226,204>>, <<227,219>>, <<230,200>>, <<231,151>>, <<232,198>>, <<233,117>>,
    <<234,36>>, <<234,164>>, <<234,196>>, <<234,228>>, <<235,211>>, <<240,190>>,
    <<240,222>>, <<241,45>>, <<241,237>>, <<242,60>>, <<242,188>>, <<243,-3>>,
    <<243,75>>, <<243,203>>, <<248,246>>, <<250,244>>
    }

\* Channel triples, as 1000000 r + 1000 g + b, on which the double value of
\* h * 360 lies just below its exact half-integer value.
HueBelowHalf == {
    -15001975, -14997991, -14991014, -14990996, -14988935, -14985975, -14980967, -14975943,
    -14975895, -14975014, -14974998, -14973895, -14971895, -14967013, -14966977, -14963943,
    -14962855, -14956935, -14949815, -14946919, -14943012, -14942982, -14942958, -14940775,
    -14936871, -14936775, -14935013, -14934981, -14932775, -14929895, -14928775, -14927895,
    -14925895, -14923847, -14919011, -14918939, -14912871, -14898855, -14897799, -14895847,
    -14895014, -14895012, -14895010, -14895008, -14894964, -14894962, -14878823, -14871751,
    -14871009, -14869815, -14861799, -14855011, -14854947, -14847008, -14840775, -14836775,
    -14827751, -14823007, -14822863, -14815010, -14814930, -14799006, -14775013, -14775009,
    -14775005, -14775001, -14774913, -14774845, -14751004, -14000974, -13996990, -13990013,
    -13989995, -13987934, -13984974, -13979966, -13974942, -13974894, -13974013, -13973997,
    -13972894, -13970894, -13966012, -13965976, -13962942, -13961854, -13955934, -13948814,
    -13945918, -13942011, -13941981, -13936750, -13935870, -13935774, -13934012, -13933980,
    -13931774, -13929854, -13928894, -13927774, -13926894, -13924894, -13918010, -13917938,
    -13911870, -13897854, -13896798, -13894846, -13894013, -13894011, -13894009, -13894007,
    -13893963, -13877822, -13870750, -13870008, -13869948, -13869900, -13868814, -13860798,
    -13854010, -13853946, -13846007, -13843774, -13839774, -13835774, -13826750, -13822006,
    -13821862, -13814009, -13813929, -13798005, -13797915, -13774012, -13774008, -13774004,
    -13774000, -13773912, -13773908, -13750003, -12999973, -12995989, -12989012, -12988994,
    -12986933, -12983973, -12978965, -12973941, -12973893, -12973012, -12972996, -12971893,
    -12969893, -12965011, -12964975, -12961941, -12960853, -12954933, -12947813, -12944917,
    -12941010, -12940980, -12940956, -12938773, -12934773, -12933011, -12932979, -12932935,
    -12930773, -12926773, -12925893, -12923893, -12921845, -12917009, -12916937, -12896853,
    -12893845, -12893012, -12893010, -12893008, -12893006, -12892962, -12892960, -12892928,
    -12876821, -12869749, -12869007, -12868911, -12868899, -12867813, -12859797, -12853009,
    -12852945, -12845006, -12842773, -12838773, -12834773, -12827813, -12825749, -12821005,
    -12820861, -12813008, -12812928, -12797004, -12773011, -12773007, -12773003, -12772999,
    -12772911, -12772907, -12749002, -11998972, -11994988, -11988011, -11987993, -11985932,
    -11982972, -11977964, -11972940, -11972892, -11972011, -11971995, -11970892, -11968892,
    -11964010, -11963974, -11960940, -11959852, -11953932, -11946812, -11943916, -11940009,
    -11939979, -11933868, -11933772, -11932010, -11931978, -11929772, -11925772, -11924892,
    -11922892, -11916008, -11915936, -11909868, -11895852, -11892011, -11892009, -11892007,
    -11892005, -11891961, -11891927, -11875820, -11868006, -11867946, -11859879, -11858796,
    -11852008, -11851944, -11844005, -11843935, -11843893, -11843879, -11841772, -11837772,
    -11833772, -11824748, -11820004, -11812007, -11811927, -11811867, -11811847, -11811817,
    -11796003, -11795841, -11772010, -11772006, -11772002, -11771998, -11771910, -11748001,
    -11747891, -11747803, -10997971, -10993987, -10987010, -10986992, -10984931, -10981971,
    -10976963, -10971939, -10971891, -10971010, -10970994, -10969891, -10967891, -10963009,
    -10962973, -10959939, -10958851, -10952931, -10945811, -10942915, -10939008, -10938978,
    -10938954, -10936771, -10932867, -10932771, -10931009, -10930977, -10928771, -10925891,
    -10924771, -10923891, -10921891, -10919843, -10915007, -10914935, -10908867, -10894851,
    -10893795, -10891843, -10891010, -10891008, -10891006, -10891004, -10890960, -10890958,
    -10874819, -10867005, -10865811, -10857795, -10851007, -10850943, -10850855, -10843004,
    -10832771, -10819003, -10818859, -10811006, -10810926, -10795002, -10794840, -10771009,
    -10771005, -10771001, -10770997, -10770909, -10770841, -10770837, -10770821, -10747000,
    -10746824, -10746802, -10014991, -9996970, -9992986, -9986009, -9985991, -9983930,
    -9980970, -9975962, -9970938, -9970890, -9970009, -9969993, -9968890, -9966890,
    -9962008, -9961972, -9958938, -9957850, -9951930, -9944810, -9941914, -9938007,
    -9937977, -9931866, -9931770, -9930008, -9929976, -9927770, -9925850, -9924890,
    -9923770, -9922890, -9920890, -9914006, -9907866, -9893850, -9892794, -9890842,
    -9890009, -9890007, -9890005, -9890003, -9889959, -9873818, -9866004, -9865944,
    -9865896, -9864810, -9856794, -9850006, -9849942, -9849854, -9842003, -9835770,
    -9831770, -9818002, -9817858, -9810005, -9809925, -9794001, -9793911, -9793839,
    -9770008, -9770004, -9770000, -9769996, -9769908, -9769904, -9769840, -9745999,
    -9745889, -9745823, -9745801, -9013990, -8995969, -8991985, -8985008, -8984990,
    -8982929, -8979969, -8974961, -8969937, -8969889, -8969008, -8968992, -8967889,
    -8966929, -8966865, -8965889, -8961007, -8960971, -8957937, -8956849, -8950929,
    -8943809, -8940913, -8937006, -8936976, -8936952, -8930769, -8929007, -8928975,
    -8928931, -8926769, -8922769, -8921889, -8919889, -8917841, -8913005, -8912933,
    -8892849, -8889841, -8889008, -8889006, -8889004, -8889002, -8888958, -8888956,
    -8888924, -8872817, -8865003, -8864907, -8864895, -8863809, -8855793, -8849005,
    -8848941, -8848853, -8841002, -8834769, -8830769, -8817001, -8816857, -8809004,
    -8808924, -8793000, -8792838, -8769007, -8769003, -8768999, -8768995, -8768907,
    -8768903, -8768839, -8744998, -8744888, -8744822, -8744800, -8012989, -7994968,
    -7990984, -7984007, -7983989, -7981928, -7978968, -7975015, -7973960, -7968936,
    -7968888, -7968007, -7967991, -7966888, -7964888, -7960006, -7959970, -7956936,
    -7955848, -7949928, -7942808, -7939912, -7936005, -7935975, -7933768, -7929864,
    -7929768, -7928006, -7927974, -7925768, -7921768, -7920888, -7918888, -7916840,
    -7912004, -7911932, -7905864, -7891848, -7888840, -7888007, -7888005, -7888003,
    -7888001, -7887957, -7887923, -7871816, -7864002, -7863942, -7862808, -7854792,
    -7848004, -7847940, -7840001, -7839875, -7833768, -7829768, -7816000, -7815856,
    -7808003, -7807923, -7791999, -7791837, -7768006, -7768002, -7767998, -7767994,
    -7767906, -7767838, -7011988, -6993967, -6989983, -6983006, -6982988, -6980927,
    -6977967, -6974014, -6972959, -6967935, -6967887, -6967006, -6966990, -6965887,
    -6964927, -6964863, -6963887, -6959005, -6958969, -6955935, -6954847, -6948927,
    -6941807, -6938911, -6935004, -6934974, -6934950, -6932767, -6928863, -6928767,
    -6927005, -6926973, -6924767, -6921887, -6920767, -6919887, -6917887, -6915839,
    -6911003, -6910931, -6904863, -6890847, -6889791, -6887839, -6887006, -6887004,
    -6887002, -6887000, -6886956, -6886954, -6870815, -6863001, -6861807, -6853791,
    -6847003, -6846939, -6839000, -6832767, -6828767, -6814999, -6814855, -6807002,
    -6806922, -6790998, -6767005, -6767001, -6766997, -6766993, -6766905, -6766837,
    -6014975, -6010987, -5992966, -5988982, -5982005, -5981987, -5979926, -5976966,
    -5973013, -5971958, -5966934, -5966886, -5966005, -5965989, -5964886, -5962886,
    -5958004, -5957968, -5954934, -5953846, -5947926, -5940806, -5937910, -5934003,
    -5933973, -5927862, -5927766, -5926004, -5925972, -5923766, -5921846, -5920886,
    -5919766, -5918886, -5916886, -5910002, -5903862, -5889846, -5888790, -5886838,
    -5886005, -5886003, -5886001, -5885999, -5885955, -5869814, -5862000, -5861940,
    -5861892, -5860806, -5852790, -5846002, -5845938, -5837999, -5835766, -5831766,
    -5827766, -5813998, -5813854, -5806001, -5805921, -5789997, -5789907, -5766004,
    -5766000, -5765996, -5765992, -5765904, -5765900, -5014967, -5013974, -5009986,
    -4991965, -4987981, -4981004, -4980986, -4978925, -4975965, -4972012, -4970957,
    -4965933, -4965885, -4965004, -4964988, -4963885, -4962925, -4962861, -4961885,
    -4957003, -4953933, -4952845, -4946925, -4939805, -4936909, -4933002, -4932972,
    -4932948, -4926765, -4925003, -4924971, -4924927, -4922765, -4918765, -4917885,
    -4915885, -4913837, -4909001, -4908929, -4888845, -4885837, -4885004, -4885002,
    -4885000, -4884998, -4884954, -4884952, -4884920, -4868813, -4860999, -4860903,
    -4860891, -4859805, -4851789, -4845001, -4844937, -4836998, -4834765, -4830765,
    -4826765, -4819805, -4812997, -4812853, -4805000, -4804920, -4788996, -4765003,
    -4764999, -4764995, -4764991, -4764903, -4764899, -4014991, -4013966, -4012973,
    -4008985, -3990964, -3986980, -3980003, -3979985, -3977924, -3974964, -3971011,
    -3969956, -3966884, -3964932, -3964884, -3964003, -3963987, -3962884, -3960884,
    -3956002, -3955966, -3952932, -3951844, -3945924, -3938804, -3935908, -3932001,
    -3931971, -3929764, -3925860, -3925764, -3924002, -3923970, -3921764, -3917764,
    -3916884, -3914884, -3908000, -3907928, -3901860, -3887844, -3884003, -3884001,
    -3883999, -3883997, -3883953, -3883919, -3867812, -3859998, -3859938, -3851871,
    -3850788, -3844000, -3843936, -3835997, -3835927, -3835885, -3835871, -3833764,
    -3829764, -3825764, -3811996, -3803999, -3803919, -3803859, -3803839, -3803809,
    -3787995, -3787833, -3764002, -3763998, -3763994, -3763990, -3763902, -3013990,
    -3012965, -3011972, -3007984, -2989963, -2985979, -2979002, -2978984, -2976923,
    -2973963, -2970010, -2968955, -2963931, -2963883, -2963002, -2962986, -2961883,
    -2960923, -2960859, -2959883, -2955001, -2951931, -2950843, -2944923, -2937803,
    -2934907, -2931000, -2930970, -2930946, -2928763, -2924859, -2924763, -2923001,
    -2922969, -2920763, -2917883, -2916763, -2915883, -2913883, -2911835, -2906999,
    -2906927, -2900859, -2886843, -2885787, -2883835, -2883002, -2883000, -2882998,
    -2882996, -2882952, -2882950, -2866811, -2858997, -2857803, -2849787, -2842999,
    -2842935, -2842847, -2834996, -2834870, -2824763, -2810995, -2810851, -2802998,
    -2802918, -2786994, -2786832, -2763001, -2762997, -2762993, -2762989, -2762901,
    -2762833, -2762829, -2762813, -2012989, -2011964, -2010971, -2006983, -1988962,
    -1984978, -1978001, -1977983, -1975922, -1972962, -1969009, -1967954, -1964882,
    -1962930, -1962882, -1962001, -1961985, -1960882, -1958882, -1954000, -1953964,
    -1950930, -1949842, -1943922, -1936802, -1933906, -1929999, -1929969, -1923858,
    -1923762, -1922000, -1921968, -1919762, -1917842, -1916882, -1915762, -1914882,
    -1912882, -1905998, -1899858, -1885842, -1884786, -1882834, -1882001, -1881999,
    -1881997, -1881995, -1881951, -1865810, -1857996, -1857936, -1857888, -1856802,
    -1848786, -1841998, -1841846, -1833995, -1833869, -1827762, -1823762, -1809994,
    -1809850, -1801997, -1801917, -1785993, -1785903, -1785831, -1762000, -1761996,
    -1761992, -1761988, -1761900, -1761896, -1761832, -1011988, -1010963, -1009970,
    -1005982, -987961, -983977, -977000, -976982, -974921, -971961, -968008,
    -966953, -961929, -961881, -961000, -960984, -959881, -958921, -958857,
    -957881, -952999, -949929, -948841, -942921, -935801, -935015, -932905,
    -928998, -928968, -928944, -922761, -920999, -920923, -918761, -914761,
    -913881, -911881, -909833, -904997, -904925, -884841, -881833, -881000,
    -880998, -880996, -880994, -880950, -880948, -880916, -864809, -856995,
    -856935, -856899, -856887, -855801, -847785, -840997, -840933, -840845,
    -832994, -826761, -822761, -808993, -808849, -800996, -800916, -784992,
    -784830, -760999, -760995, -760991, -760987, -760899, -760895, -760831,
    -14943, -10987, -9962, -8969, -4981, 13040, 17024, 24001,
    24019, 26080, 29040, 32993, 34048, 37120, 39072, 39120,
    40001, 40017, 41120, 43120, 48002, 48038, 51072, 52160,
    58080, 65200, 65986, 68096, 72003, 74240, 78144, 78240,
    80002, 80034, 82240, 86240, 87120, 89120, 91168, 96004,
    96076, 102144, 116160, 119168, 120001, 120003, 120005, 120007,
    120051, 120085, 136192, 144006, 145200, 153216, 160004, 160068,
    168007, 174240, 178240, 192008, 192152, 200005, 200085, 216009,
    216171, 240002, 240006, 240010, 240014, 240102, 240170, 986058,
    990014, 991039, 992032, 996020, 1014041, 1018025, 1025002, 1025020,
    1027081, 1030041, 1033994, 1035049, 1040073, 1040121, 1041002, 1041018,
    1042121, 1043081, 1043145, 1044121, 1049003, 1052073, 1053161, 1059081,
    1066121, 1066201, 1066987, 1069097, 1073004, 1073034, 1073058, 1075241,
    1079145, 1079241, 1081003, 1083241, 1086121, 1087241, 1088121, 1090121,
    1092169, 1097005, 1097077, 1103145, 1117161, 1118217, 1120169, 1121002,
    1121004, 1121006, 1121008, 1121052, 1121054, 1137193, 1145007, 1146201,
    1154217, 1161005, 1161069, 1169008, 1175241, 1179241, 1193009, 1193153,
    1201006, 1201086, 1217010, 1241003, 1241007, 1241011, 1241015, 1241103,
    1241171, 1987059, 1991015, 1992040, 1993033, 1997021, 2015042, 2019026,
    2026003, 2026021, 2028082, 2031042, 2034995, 2036050, 2039122, 2041074,
    2041122, 2042003, 2042019, 2043122, 2045122, 2050004, 2050040, 2053074,
    2054162, 2060082, 2067202, 2067988, 2070098, 2074005, 2080146, 2080242,
    2082004, 2082036, 2084242, 2086162, 2087122, 2088242, 2089122, 2091122,
    2098006, 2104146, 2118162, 2119218, 2121170, 2122003, 2122005, 2122007,
    2122009, 2122053, 2132242, 2138194, 2146008, 2146068, 2146116, 2147202,
    2155218, 2162006, 2170009, 2172242, 2176242, 2180242, 2194010, 2194154,
    2202007, 2202087, 2218011, 2218101, 2242004, 2242008, 2242012, 2242016,
    2242104, 2242108, 2985065, 2988060, 2992016, 2993041, 2994034, 2998022,
    3016043, 3020027, 3027004, 3027022, 3029083, 3032043, 3035996, 3037051,
    3042075, 3042123, 3043004, 3043020, 3044123, 3045083, 3045147, 3046123,
    3051005, 3054075, 3055163, 3061083, 3068203, 3068989, 3071099, 3075006,
    3075036, 3075060, 3081243, 3083005, 3083081, 3085243, 3089243, 3090123,
    3092123, 3094171, 3099007, 3099079, 3119163, 3122171, 3123004, 3123006,
    3123008, 3123010, 3123054, 3123056, 3123088, 3133243, 3139195, 3147009,
    3147069, 3147105, 3147117, 3148203, 3156219, 3163007, 3163071, 3171010,
    3173243, 3177243, 3181243, 3188203, 3195011, 3195155, 3203008, 3203088,
    3219012, 3243005, 3243009, 3243013, 3243017, 3243105, 3243109, 3985025,
    3986066, 3989061, 3993017, 3994042, 3995035, 3999023, 4017044, 4021028,
    4028005, 4028023, 4030084, 4033044, 4036997, 4038052, 4041124, 4043076,
    4043124, 4044005, 4044021, 4045124, 4047124, 4052006, 4052042, 4055076,
    4056164, 4062084, 4069204, 4069990, 4072100, 4076007, 4078244, 4082148,
    4082244, 4084006, 4084038, 4086244, 4090244, 4091124, 4093124, 4100008,
    4100080, 4106148, 4120164, 4124005, 4124007, 4124009, 4124011, 4124055,
    4124089, 4140196, 4148010, 4156137, 4157220, 4164008, 4164072, 4172011,
    4172081, 4172123, 4172137, 4174244, 4178244, 4182244, 4196012, 4204009,
    4204089, 4204149, 4204169, 4204199, 4220013, 4220175, 4244006, 4244010,
    4244014, 4244018, 4244106, 4985081, 4986026, 4987067, 4990062, 4994018,
    4995043, 4996036, 5000024, 5018045, 5022029, 5029006, 5029024, 5031085,
    5034045, 5037998, 5039053, 5044077, 5044125, 5045006, 5045022, 5046125,
    5047085, 5047149, 5048125, 5053007, 5056077, 5057165, 5063085, 5070125,
    5070205, 5070991, 5073101, 5077008, 5077038, 5077062, 5079245, 5083149,
    5083245, 5085007, 5087245, 5090125, 5091245, 5092125, 5094125, 5096173,
    5101009, 5101081, 5107149, 5121165, 5122221, 5124173, 5125006, 5125008,
    5125010, 5125012, 5125056, 5125058, 5141197, 5149011, 5150205, 5158221,
    5165009, 5165073, 5165161, 5173012, 5173138, 5183245, 5197013, 5197157,
    5205010, 5205090, 5221014, 5221176, 5245007, 5245011, 5245015, 5245019,
    5245107, 5245175, 5245179, 5245195, 5986082, 5987027, 5988068, 5991063,
    5995019, 5996044, 5997037, 6001025, 6019046, 6023030, 6030007, 6030025,
    6032086, 6035046, 6038999, 6040054, 6043126, 6045078, 6045126, 6046007,
    6046023, 6047126, 6049126, 6054008, 6054044, 6057078, 6058166, 6064086,
    6071206, 6071992, 6074102, 6078009, 6084150, 6084246, 6086008, 6086040,
    6088246, 6090166, 6091126, 6092246, 6093126, 6095126, 6102010, 6104985,
    6108150, 6122166, 6123222, 6125174, 6126007, 6126009, 6126011, 6126013,
    6126057, 6142198, 6150012, 6150072, 6150120, 6151206, 6159222, 6166010,
    6166162, 6174013, 6174139, 6180246, 6184246, 6198014, 6198158, 6206011,
    6206091, 6222015, 6222105, 6222177, 6246008, 6246012, 6246016, 6246020,
    6246108, 6246112, 6246176, 6985033, 6987083, 6988028, 6989069, 6992064,
    6996020, 6997045, 6998038, 7002026, 7020047, 7024031, 7031008, 7031026,
    7033055, 7033087, 7036047, 7040000, 7041055, 7046079, 7046127, 7047008,
    7047024, 7048127, 7049087, 7049151, 7050127, 7055009, 7058079, 7059167,
    7072207, 7072993, 7075103, 7079010, 7079040, 7079064, 7085247, 7087009,
    7087065, 7087085, 7089247, 7093247, 7094127, 7096127, 7098175, 7103011,
    7103083, 7105986, 7123167, 7126175, 7127008, 7127010, 7127012, 7127014,
    7127058, 7127060, 7127092, 7143199, 7151013, 7151073, 7151109, 7151121,
    7152207, 7160223, 7167011, 7167075, 7167163, 7175014, 7181247, 7185247,
    7199015, 7199159, 7207012, 7207092, 7223016, 7223178, 7247009, 7247013,
    7247017, 7247021, 7247109, 7247113, 7247177, 7986034, 7988084, 7989029,
    7990070, 7993065, 7997021, 7998046, 7999039, 8003027, 8008985, 8021048,
    8025032, 8032009, 8032027, 8034088, 8037048, 8041001, 8042056, 8045128,
    8047080, 8047128, 8048009, 8048025, 8049128, 8051128, 8056010, 8056046,
    8059080, 8060168, 8066088, 8073208, 8073994, 8076104, 8080011, 8080065,
    8082248, 8086152, 8086248, 8088010, 8088042, 8090248, 8094248, 8095128,
    8097128, 8099176, 8104012, 8104084, 8106987, 8110152, 8124168, 8127176,
    8128009, 8128011, 8128013, 8128015, 8128059, 8128093, 8144200, 8152014,
    8153208, 8161224, 8168012, 8168076, 8176015, 8182248, 8186248, 8200016,
    8200160, 8208013, 8208093, 8224017, 8224179, 8248010, 8248014, 8248018,
    8248022, 8248110, 8248178, 8984986, 8985004, 8987035, 8989085, 8990030,
    8991071, 8994066, 8995985, 8998022, 8999047, 9000040, 9004028, 9009986,
    9022049, 9033010, 9033020, 9033026, 9033028, 9035057, 9035089, 9038049,
    9042002, 9043057, 9048081, 9048129, 9049010, 9049026, 9050129, 9051089,
    9051153, 9052129, 9057011, 9060081, 9061169, 9067089, 9074129, 9074209,
    9074995, 9077105, 9081012, 9081042, 9083249, 9087153, 9087249, 9089011,
    9091249, 9094129, 9095249, 9096129, 9098129, 9100177, 9105013, 9105085,
    9107988, 9111153, 9125169, 9126225, 9128177, 9129010, 9129012, 9129014,
    9129016, 9129060, 9129062, 9145201, 9153015, 9154209, 9162225, 9169013,
    9169077, 9177016, 9183249, 9187249, 9201017, 9201161, 9209014, 9209094,
    9225018, 9249011, 9249015, 9249019, 9249023, 9249111, 9249179, 9985105,
    9985987, 9986005, 9988036, 9990086, 9991031, 9992072, 9995067, 9996986,
    9999023, 10000048, 10001041, 10005029, 10010987, 10023050, 10027034, 10034011,
    10034029, 10036090, 10039050, 10043003, 10044058, 10047130, 10049082, 10049130,
    10050011, 10050027, 10051130, 10053130, 10058012, 10058048, 10061082, 10062170,
    10068090, 10075210, 10075996, 10078106, 10082013, 10088154, 10088250, 10090012,
    10090044, 10092250, 10094170, 10095130, 10096250, 10097130, 10099130, 10106014,
    10108989, 10112154, 10126170, 10127226, 10129178, 10130011, 10130013, 10130015,
    10130017, 10130061, 10140250, 10146202, 10154016, 10154076, 10154124, 10155210,
    10163226, 10170014, 10178017, 10180250, 10184250, 10188250, 10202018, 10202162,
    10210015, 10210095, 10226019, 10226109, 10250012, 10250016, 10250020, 10250024,
    10250112, 10250116, 10986106, 10986988, 10987006, 10989037, 10991087, 10992032,
    10993073, 10996068, 10997987, 11000024, 11001049, 11002042, 11006030, 11011988,
    11024051, 11035012, 11035022, 11035028, 11035030, 11037059, 11037091, 11040051,
    11044004, 11045059, 11046131, 11048131, 11050083, 11050131, 11051012, 11051028,
    11052131, 11053091, 11053155, 11054131, 11059013, 11062083, 11063171, 11074131,
    11076131, 11076211, 11076997, 11079107, 11083014, 11083044, 11083068, 11089251,
    11091013, 11091069, 11091089, 11093251, 11094131, 11096131, 11097251, 11098131,
    11100131, 11102179, 11107015, 11107087, 11109990, 11122131, 11127171, 11131012,
    11131014, 11131016, 11131018, 11141251, 11147203, 11155017, 11155077, 11155113,
    11155125, 11156211, 11164227, 11171015, 11171079, 11179018, 11179130, 11181251,
    11185251, 11189251, 11196211, 11203019, 11203163, 11211016, 11211096, 11227020,
    11251013, 11251017, 11251021, 11251025, 11251113, 11251117, 11985105, 11987107,
    11987989, 11988007, 11990038, 11992088, 11993033, 11994074, 11997069, 11998988,
    12001025, 12002050, 12003043, 12007031, 12012989, 12025052, 12029036, 12033052,
    12033084, 12036013, 12036031, 12038092, 12041052, 12045005, 12046060, 12049132,
    12051084, 12051132, 12052013, 12052029, 12053132, 12055132, 12060014, 12060050,
    12063084, 12064172, 12070092, 12077212, 12077998, 12080108, 12084015, 12084069,
    12086252, 12090156, 12090252, 12092014, 12092046, 12094252, 12098252, 12099132,
    12101132, 12108016, 12108088, 12110991, 12114156, 12128172, 12132013, 12132015,
    12132017, 12132019, 12132063, 12132065, 12132097, 12132107, 12132109, 12132129,
    12132131, 12148204, 12156018, 12164145, 12165228, 12172016, 12172080, 12180019,
    12180089, 12180131, 12180145, 12182252, 12186252, 12190252, 12204020, 12212017,
    12212097, 12212157, 12212177, 12212207, 12228021, 12228183, 12252014, 12252018,
    12252022, 12252026, 12252114, 12986106, 12988108, 12988990, 12989008, 12991039,
    12993089, 12994034, 12995075, 12998070, 12999989, 13002026, 13003051, 13004044,
    13008032, 13013990, 13026053, 13037014, 13037024, 13037030, 13037032, 13039061,
    13039093, 13042053, 13046006, 13047061, 13052085, 13052133, 13053014, 13053030,
    13054133, 13055093, 13055157, 13056133, 13061015, 13064085, 13065173, 13071093,
    13078133, 13078213, 13078999, 13081109, 13085016, 13085046, 13087253, 13091157,
    13091253, 13093015, 13095253, 13098133, 13099253, 13100133, 13102133, 13104181,
    13109017, 13109089, 13111992, 13115157, 13129173, 13132181, 13133014, 13133016,
    13133018, 13133020, 13133064, 13133108, 13133130, 13144985, 13149205, 13157019,
    13158213, 13166229, 13173017, 13173081, 13173169, 13181020, 13181146, 13191253,
    13205021, 13205165, 13213018, 13213098, 13229022, 13229184, 13253015, 13253019,
    13253023, 13253027, 13253115, 13253183, 13253187, 13253203, 13985105, 13987107,
    13989109, 13989991, 13990009, 13992040, 13994090, 13995035, 13996076, 13999071,
    14000990, 14003027, 14004052, 14005045, 14009033, 14014991, 14027054, 14031038,
    14035054, 14035086, 14038015, 14040094, 14043054, 14047007, 14048062, 14051134,
    14053086, 14053134, 14054015, 14054031, 14055134, 14057134, 14062016, 14062052,
    14066110, 14066174, 14072094, 14079214, 14080000, 14082110, 14086017, 14086065,
    14092158, 14092254, 14094016, 14094048, 14096254, 14098174, 14099134, 14100254,
    14101134, 14103134, 14110018, 14112993, 14116158, 14133182, 14134015, 14134017,
    14134019, 14134021, 14134065, 14134131, 14145986, 14150206, 14158020, 14158080,
    14158128, 14159214, 14167230, 14174018, 14174130, 14174170, 14182021, 14182147,
    14188254, 14192254, 14206022, 14206166, 14214019, 14214099, 14230023, 14230113,
    14230185, 14254016, 14254020, 14254024, 14254028, 14254116, 14254120, 14254184,
    14985129, 14986106, 14988108, 14990110, 14990992, 14991010, 14993041, 14995091,
    14996036, 14997077, 15000072, 15001991, 15004028, 15005053, 15006046, 15010034,
    15015992, 15028055, 15039016, 15039026, 15039032, 15039034, 15041063, 15041095,
    15044055, 15048008, 15049063, 15054087, 15054135, 15055016, 15055032, 15056135,
    15057095, 15057159, 15058135, 15063017, 15066087, 15067175, 15080215, 15081001,
    15083111, 15087018, 15087048, 15087072, 15093255, 15095017, 15095073, 15095093,
    15097255, 15101255, 15102135, 15104135, 15106183, 15111019, 15111091, 15113994,
    15132231, 15134183, 15135016, 15135018, 15135020, 15135022, 15135066, 15135068,
    15135100, 15146987, 15151207, 15159021, 15159081, 15159117, 15159129, 15160215,
    15168231, 15175019, 15175083, 15175131, 15175171, 15183022, 15189255, 15193255,
    15207023, 15207167, 15215020, 15215100, 15231024, 15231186, 15255017, 15255021,
    15255025, 15255029, 15255117, 15255121, 15255185, 15986130, 15987107, 15989109,
    15991111, 15991993, 15992011, 15994042, 15996092, 15997037, 15998078, 16001073,
    16002992, 16005029, 16006054, 16007047, 16011035, 16016993, 16029056, 16033040,
    16037056, 16037088, 16040017, 16042096, 16045056, 16049009, 16050064, 16053136,
    16055088, 16055136, 16056017, 16057136, 16059136, 16064018, 16064054, 16067088,
    16068176, 16074096, 16081216, 16082002, 16084112, 16088019, 16088073, 16094160,
    16096018, 16096050, 16103136, 16105136, 16107184, 16112020, 16112092, 16114995,
    16118160, 16132176, 16133232, 16135184, 16136017, 16136019, 16136021, 16136023,
    16136067, 16136069, 16136101, 16147988, 16152208, 16160022, 16160130, 16161216,
    16169232, 16176020, 16176084, 16184023, 16208024, 16208168, 16216021, 16216101,
    16232025, 16232187, 16987131, 16988108, 16990110, 16992112, 16992994, 16993012,
    16995043, 16997093, 16998038, 16999079, 17002074, 17003993, 17006030, 17007055,
    17008048, 17012036, 17017994, 17030057, 17041018, 17041028, 17041034, 17041036,
    17043065, 17043097, 17046057, 17050010, 17051065, 17056089, 17056137, 17057018,
    17057034, 17058137, 17059097, 17059161, 17060137, 17065019, 17066185, 17068089,
    17069177, 17075097, 17082137, 17082217, 17083003, 17085113, 17089020, 17089050,
    17095161, 17097019, 17102137, 17104137, 17106137, 17108185, 17113021, 17113093,
    17115996, 17119161, 17133177, 17134233, 17136185, 17137018, 17137020, 17137022,
    17137024, 17137068, 17148989, 17153209, 17161023, 17161131, 17162217, 17170233,
    17177021, 17177085, 17185024, 17209025, 17209169, 17217022, 17217102, 17233026,
    17985057, 17988132, 17989109, 17991111, 17993113, 17993995, 17994013, 17996044,
    17998094, 17999039, 18000080, 18003075, 18004994, 18007031, 18008056, 18009049,
    18013037, 18018995, 18031058, 18035042, 18039058, 18039090, 18042019, 18044098,
    18047058, 18051011, 18055138, 18057090, 18057138, 18058019, 18059138, 18061138,
    18066020, 18066040, 18066052, 18066056, 18070114, 18070178, 18076098, 18083218,
    18084004, 18086114, 18090021, 18090069, 18096162, 18098020, 18098052, 18102178,
    18103138, 18105138, 18107138, 18114022, 18116997, 18120162, 18134178, 18135234,
    18137186, 18138019, 18138021, 18138023, 18138025, 18138069, 18149990, 18154210,
    18162024, 18162084, 18163218, 18171234, 18178022, 18186025, 18210026, 18210170,
    18218023, 18218103, 18234027, 18234117, 18986058, 18989133, 18990110, 18992112,
    18994114, 18994996, 18995014, 18997045, 18999095, 19000040, 19001081, 19004076,
    19005995, 19008032, 19009057, 19010050, 19014038, 19019996, 19032059, 19033067,
    19043020, 19043030, 19043036, 19043038, 19045067, 19045099, 19048059, 19052012,
    19053067, 19054139, 19056139, 19058091, 19058139, 19059020, 19059036, 19060139,
    19061099, 19061163, 19062139, 19067021, 19070091, 19071179, 19082139, 19084139,
    19084219, 19085005, 19087115, 19091022, 19091052, 19091076, 19099021, 19099077,
    19099097, 19102139, 19104139, 19106139, 19108139, 19110187, 19115023, 19115095,
    19117998, 19135179, 19139020, 19139022, 19139024, 19139026, 19150991, 19155211,
    19163025, 19163085, 19163121, 19164219, 19172235, 19179023, 19179087, 19187026,
    19187138, 19204219, 19211027, 19211171, 19219024, 19219104, 19235028, 19985153,
    19987059, 19990134, 19991111, 19993113, 19995115, 19995997, 19996015, 19998046,
    20000096, 20001041, 20002082, 20005077, 20006996, 20009033, 20010058, 20011051,
    20015039, 20020997, 20033044, 20033060, 20037044, 20041060, 20041092, 20044021,
    20046100, 20049060, 20053013, 20054068, 20057140, 20059092, 20059140, 20060021,
    20061140, 20063140, 20068022, 20068058, 20071092, 20072180, 20078100, 20085220,
    20086006, 20088116, 20092023, 20092077, 20098164, 20100022, 20100054, 20107140,
    20109140, 20116024, 20116096, 20118999, 20122164, 20136180, 20140021, 20140023,
    20140025, 20140027, 20140071, 20140073, 20140105, 20140115, 20140117, 20140137,
    20140139, 20151992, 20156212, 20164026, 20172153, 20173236, 20180024, 20180088,
    20184985, 20188027, 20188097, 20188139, 20188153, 20212028, 20220025, 20220105,
    20220165, 20220185, 20220215, 20236029, 20236191, 20985145, 20986154, 20988060,
    20991135, 20992112, 20994114, 20996116, 20996998, 20997016, 20999047, 21001097,
    21002042, 21003083, 21006078, 21007997, 21010034, 21011059, 21012052, 21016040,
    21021998, 21034061, 21035069, 21045022, 21045032, 21045038, 21045040, 21047069,
    21047101, 21050061, 21054014, 21055069, 21060093, 21060141, 21061022, 21061038,
    21062141, 21063101, 21063165, 21064141, 21069023, 21070189, 21072093, 21073181,
    21079101, 21086141, 21086221, 21087007, 21089117, 21093024, 21093054, 21099165,
    21101023, 21106141, 21108141, 21110141, 21112189, 21117025, 21117097, 21120000,
    21123165, 21137181, 21140189, 21141022, 21141024, 21141026, 21141028, 21141072,
    21141116, 21141138, 21152993, 21157213, 21165027, 21166221, 21174237, 21181025,
    21181089, 21181177, 21185986, 21189028, 21189154, 21213029, 21213173, 21221026,
    21221106, 21237030, 21237192, 21986146, 21987155, 21989061, 21992136, 21993113,
    21995115, 21997117, 21997999, 21998017, 22000048, 22002098, 22003043, 22004084,
    22007079, 22008998, 22011035, 22012060, 22013053, 22017041, 22022999, 22035046,
    22035062, 22039046, 22043062, 22043094, 22046023, 22048102, 22051062, 22055015,
    22059142, 22061094, 22061142, 22062023, 22063142, 22065142, 22070024, 22070044,
    22070056, 22070060, 22074118, 22074182, 22080102, 22087222, 22088008, 22090118,
    22094025, 22094073, 22100166, 22102024, 22102056, 22106182, 22107142, 22109142,
    22111142, 22118026, 22121001, 22124166, 22141190, 22142023, 22142025, 22142027,
    22142029, 22142073, 22142139, 22153994, 22158214, 22166028, 22166088, 22166136,
    22167222, 22175238, 22182026, 22182138, 22182178, 22186987, 22190029, 22190155,
    22214030, 22214174, 22222027, 22222107, 22238031, 22238121, 22238193, 22985065,
    22987147, 22988156, 22990062, 22993137, 22994114, 22996116, 22998118, 22999000,
    22999018, 23001049, 23003099, 23004044, 23005085, 23008080, 23009999, 23012036,
    23013061, 23014054, 23018042, 23024000, 23036063, 23037071, 23047024, 23047034,
    23047040, 23047042, 23049071, 23049103, 23052063, 23056016, 23057071, 23062095,
    23062143, 23063024, 23063040, 23064143, 23066143, 23071025, 23074095, 23075183,
    23088223, 23089009, 23091119, 23095026, 23095056, 23095080, 23103025, 23103081,
    23103101, 23110143, 23112143, 23114191, 23119027, 23119099, 23122002, 23140239,
    23142191, 23143024, 23143026, 23143028, 23143030, 23143074, 23143076, 23143108,
    23154995, 23159215, 23167029, 23167089, 23167125, 23167137, 23168223, 23176239,
    23183027, 23183091, 23183139, 23183179, 23187988, 23191030, 23215031, 23215175,
    23223028, 23223108, 23239032, 23239194, 23986066, 23988148, 23989157, 23991063,
    23994138, 23995115, 23997117, 23999119, 24000001, 24000019, 24002050, 24004100,
    24005045, 24006086, 24009081, 24011000, 24013037, 24014062, 24015055, 24019043,
    24024985, 24025001, 24037048, 24037064, 24041048, 24045064, 24045096, 24048025,
    24050104, 24053064, 24057017, 24058072, 24061144, 24063096, 24063144, 24064025,
    24065144, 24066104, 24066168, 24067144, 24072026, 24072062, 24075096, 24076184,
    24082104, 24089224, 24090010, 24092120, 24096027, 24096081, 24102168, 24104026,
    24104058, 24111144, 24113144, 24115192, 24120028, 24120100, 24123003, 24126168,
    24140184, 24141240, 24143192, 24144025, 24144027, 24144029, 24144031, 24144075,
    24144077, 24144109, 24155996, 24160216, 24168030, 24168138, 24169224, 24177240,
    24184028, 24184092, 24188989, 24192031, 24216032, 24216176, 24224029, 24224109,
    24240033, 24240195, 24984986, 24985016, 24985177, 24987067, 24989149, 24990158,
    24991985, 24992064, 24995139, 24996116, 24998118, 25000120, 25001002, 25001020,
    25003051, 25005101, 25006046, 25007087, 25010082, 25012001, 25014038, 25015063,
    25016056, 25017985, 25020044, 25021985, 25025986, 25026002, 25033032, 25038065,
    25039073, 25049026, 25049036, 25049042, 25049044, 25051073, 25051105, 25054065,
    25058018, 25059073, 25064097, 25064145, 25065026, 25065042, 25066145, 25067105,
    25067169, 25068145, 25073027, 25074193, 25076097, 25077185, 25083105, 25090145,
    25090225, 25091011, 25093121, 25097028, 25097058, 25103169, 25105027, 25110145,
    25112145, 25114145, 25116193, 25121029, 25121101, 25124004, 25127169, 25141185,
    25142241, 25144193, 25145026, 25145028, 25145030, 25145032, 25145076, 25156997,
    25161217, 25169031, 25169139, 25170225, 25178241, 25185029, 25185093, 25189990,
    25193032, 25217033, 25217177, 25225030, 25225110, 25241034, 25985987, 25986017,
    25986178, 25988068, 25990150, 25991159, 25992986, 25993065, 25996140, 25997117,
    25999119, 26001121, 26002003, 26002021, 26004052, 26006102, 26007047, 26008088,
    26011083, 26013002, 26015039, 26016064, 26017057, 26018986, 26021045, 26022986,
    26026987, 26027003, 26033034, 26033050, 26039050, 26039066, 26043050, 26047098,
    26050027, 26052106, 26055066, 26059019, 26063146, 26065146, 26066027, 26066043,
    26066065, 26067146, 26069146, 26074028, 26074048, 26074060, 26074064, 26078122,
    26078186, 26084106, 26091226, 26092012, 26094122, 26098029, 26098077, 26104170,
    26106028, 26106060, 26110186, 26111146, 26113146, 26115146, 26122030, 26125005,
    26128170, 26142186, 26143242, 26145194, 26146027, 26146029, 26146031, 26146077,
    26157998, 26162218, 26170032, 26170092, 26171226, 26179242, 26186030, 26190991,
    26194033, 26218034, 26218178, 26226031, 26226111, 26242035, 26242125, 26986988,
    26987018, 26987179, 26989069, 26991151, 26992160, 26993987, 26994066, 26997141,
    26998118, 27000120, 27002122, 27003004, 27003022, 27005053, 27007103, 27008048,
    27009089, 27012084, 27014003, 27016040, 27017065, 27018058, 27019987, 27022046,
    27023987, 27027988, 27028004, 27035034, 27040067, 27041075, 27051028, 27051038,
    27051044, 27051046, 27053075, 27053107, 27056067, 27060020, 27061075, 27062147,
    27064147, 27066099, 27066147, 27067028, 27067044, 27068147, 27070147, 27075029,
    27075065, 27078099, 27079187, 27090147, 27092147, 27092227, 27093013, 27095123,
    27099030, 27099060, 27099084, 27107029, 27107085, 27107105, 27110147, 27112147,
    27114147, 27116147, 27118195, 27123031, 27123103, 27126006, 27143187, 27147028,
    27147030, 27147032, 27147034, 27158999, 27163219, 27171033, 27171093, 27171129,
    27172227, 27180243, 27187031, 27187095, 27191992, 27195034, 27195146, 27212227,
    27219035, 27219179, 27224985, 27227032, 27227112, 27243036, 27987989, 27988019,
    27988180, 27990070, 27992152, 27993161, 27994988, 27995067, 27998142, 27999119,
    28001121, 28003123, 28004005, 28004023, 28006054, 28008104, 28009049, 28010090,
    28013085, 28015004, 28017041, 28018066, 28019059, 28020988, 28023047, 28024988,
    28028989, 28029005, 28033036, 28035036, 28035052, 28035068, 28041052, 28041068,
    28045052, 28049068, 28049100, 28052029, 28054108, 28057068, 28061021, 28062076,
    28067100, 28067148, 28068029, 28069148, 28070108, 28070172, 28071148, 28076030,
    28079100, 28080188, 28086108, 28093228, 28094014, 28096124, 28100031, 28100085,
    28104985, 28106172, 28108030, 28108062, 28115148, 28117148, 28124032, 28124104,
    28127007, 28132220, 28144188, 28148029, 28148031, 28148033, 28148079, 28148081,
    28148113, 28148123, 28148125, 28148145, 28148147, 28160000, 28164220, 28172034,
    28172130, 28180161, 28181244, 28188032, 28188096, 28192993, 28196035, 28196105,
    28196147, 28196161, 28220036, 28225986, 28228033, 28228113, 28228173, 28228193,
    28228223, 28244037, 28244199, 28985081, 28988990, 28989020, 28989181, 28991071,
    28993153, 28994162, 28995989, 28996068, 28999143, 29000120, 29002122, 29004124,
    29005006, 29005024, 29007055, 29009105, 29010050, 29011091, 29014086, 29016005,
    29018042, 29019067, 29020060, 29021989, 29024048, 29025989, 29029990, 29030006,
    29037036, 29042069, 29043077, 29053030, 29053040, 29053046, 29053048, 29055077,
    29055109, 29058069, 29062022, 29063077, 29066069, 29066149, 29068101, 29068149,
    29069030, 29069046, 29070149, 29071109, 29071173, 29072149, 29077031, 29078197,
    29080101, 29081189, 29087109, 29094149, 29094229, 29095015, 29097125, 29101032,
    29101062, 29105986, 29107173, 29109031, 29114149, 29116149, 29118149, 29120197,
    29125033, 29125105, 29128008, 29133221, 29145189, 29148197, 29149030, 29149032,
    29149034, 29149036, 29149080, 29149124, 29149146, 29161001, 29165221, 29173035,
    29173131, 29174229, 29182245, 29189033, 29189097, 29189185, 29193994, 29197036,
    29197162, 29221037, 29221181, 29226987, 29229034, 29229114, 29245038, 29245200,
    29985185, 29985201, 29986082, 29989991, 29990021, 29990182, 29992072, 29994154,
    29995163, 29996990, 29997069, 30000144, 30001121, 30003123, 30005125, 30006007,
    30006025, 30008056, 30010106, 30011051, 30012092, 30015087, 30017006, 30019043,
    30020068, 30021061, 30022990, 30025049, 30026990, 30030991, 30031007, 30035038,
    30037038, 30037054, 30043054, 30043070, 30047054, 30051102, 30054031, 30056110,
    30059070, 30063023, 30067150, 30069150, 30070031, 30070047, 30070069, 30071150,
    30073150, 30078032, 30078052, 30078064, 30078068, 30082126, 30082190, 30088110,
    30095230, 30096016, 30098126, 30102033, 30102081, 30106987, 30108174, 30110032,
    30110064, 30114190, 30115150, 30117150, 30119150, 30126034, 30129009, 30131011,
    30132174, 30149198, 30150031, 30150033, 30150035, 30150081, 30150147, 30162002,
    30166222, 30174036, 30174096, 30174144, 30175230, 30183246, 30190034, 30190146,
    30190186, 30194995, 30198037, 30198163, 30222038, 30222182, 30227988, 30230035,
    30230115, 30246039, 30246129, 30246201, 30986186, 30986202, 30987083, 30990992,
    30991022, 30991183, 30993073, 30995155, 30996164, 30997991, 30998070, 31001145,
    31002122, 31004124, 31006126, 31007008, 31007026, 31009057, 31011107, 31012052,
    31013093, 31016088, 31018007, 31020044, 31021069, 31022062, 31023991, 31026050,
    31027991, 31031992, 31032008, 31032985, 31039038, 31044071, 31045079, 31055032,
    31055042, 31055048, 31055050, 31057079, 31057111, 31060071, 31064024, 31070103,
    31070151, 31071032, 31071048, 31072151, 31074151, 31079065, 31079069, 31082103,
    31083191, 31096231, 31097017, 31099127, 31103034, 31103064, 31103088, 31107988,
    31111033, 31111065, 31111089, 31111109, 31118151, 31120151, 31122199, 31127035,
    31127107, 31130010, 31133175, 31148247, 31150199, 31151032, 31151034, 31151036,
    31151038, 31151082, 31151084, 31151116, 31163003, 31167223, 31175037, 31175097,
    31175145, 31176231, 31184247, 31191035, 31191099, 31191147, 31191187, 31195996,
    31199038, 31223039, 31223183, 31228989, 31231036, 31231116, 31247040, 31247130,
    31247202, 31987187, 31987203, 31988084, 31991993, 31992023, 31992184, 31994074,
    31996156, 31997165, 31998992, 31999071, 32002146, 32003123, 32005125, 32007127,
    32008009, 32008027, 32010058, 32012108, 32013053, 32014094, 32017089, 32019008,
    32021045, 32022070, 32023063, 32024992, 32027051, 32028992, 32032993, 32033040,
    32033986, 32037040, 32039040, 32039056, 32039072, 32045056, 32045072, 32049056,
    32053072, 32053104, 32058112, 32061072, 32065025, 32066080, 32071104, 32071152,
    32072033, 32073152, 32074112, 32074176, 32075152, 32080034, 32083104, 32084192,
    32090112, 32097232, 32098018, 32100128, 32104035, 32104065, 32104089, 32108989,
    32110176, 32112034, 32119152, 32121152, 32123200, 32128036, 32128108, 32131011,
    32134176, 32148192, 32149248, 32151200, 32152033, 32152035, 32152037, 32152083,
    32152085, 32152117, 32164004, 32168224, 32176038, 32176146, 32177232, 32185248,
    32192036, 32192100, 32196997, 32200039, 32224040, 32224184, 32229990, 32232037,
    32232117, 32248041, 32248131, 32248203, 32984987, 32985023, 32988188, 32988204,
    32989085, 32992994, 32993024, 32993185, 32995075, 32997157, 32998166, 32999993,
    33000072, 33003147, 33006126, 33006985, 33008128, 33009010, 33010009, 33011059,
    33013109, 33014009, 33014054, 33015095, 33016009, 33018009, 33018090, 33019017,
    33020009, 33023017, 33023071, 33024009, 33024064, 33025993, 33026009, 33026025,
    33027017, 33028009, 33028025, 33029993, 33030009, 33030025, 33031017, 33032009,
    33032025, 33033994, 33034010, 33034026, 33034987, 33036028, 33038014, 33038030,
    33040000, 33040032, 33041034, 33041036, 33041038, 33041040, 33042002, 33042995,
    33044020, 33046022, 33046073, 33047031, 33050010, 33054030, 33057034, 33057044,
    33057050, 33057052, 33059011, 33059081, 33059113, 33060020, 33062022, 33062073,
    33066026, 33066987, 33067081, 33070030, 33070073, 33070153, 33072000, 33072153,
    33073034, 33073036, 33073050, 33074153, 33076153, 33081035, 33085193, 33087007,
    33091113, 33098233, 33099019, 33105036, 33105084, 33109990, 33111177, 33111992,
    33113035, 33113067, 33118153, 33120153, 33122153, 33129037, 33129077, 33129101,
    33129109, 33132012, 33134014, 33135177, 33149193, 33150249, 33152201, 33153034,
    33153036, 33153038, 33153040, 33153084, 33165005, 33169225, 33177039, 33177099,
    33177147, 33178233, 33186249, 33193037, 33193101, 33197998, 33201040, 33225041,
    33225185, 33230991, 33233038, 33233118, 33234995, 33249042, 33985988, 33986024,
    33989189, 33989205, 33990086, 33993995, 33994025, 33994186, 33996076, 33998158,
    33999167, 34000994, 34001073, 34004148, 34005125, 34007127, 34007986, 34009129,
    34010011, 34010029, 34010033, 34012060, 34014110, 34015055, 34016096, 34019091,
    34021010, 34023047, 34024072, 34025065, 34026994, 34029053, 34030994, 34033057,
    34033153, 34034995, 34035042, 34035988, 34039042, 34041042, 34041058, 34047058,
    34047074, 34051058, 34055106, 34060114, 34063074, 34067027, 34071154, 34073154,
    34074035, 34074051, 34074073, 34075154, 34077154, 34082036, 34082056, 34082068,
    34082072, 34086130, 34086194, 34092114, 34099234, 34100020, 34102130, 34106037,
    34106085, 34110991, 34112178, 34114036, 34114068, 34118194, 34119154, 34121154,
    34123154, 34130038, 34133013, 34136178, 34150194, 34151250, 34153202, 34154035,
    34154037, 34154039, 34154085, 34166006, 34170226, 34178040, 34178100, 34179234,
    34187250, 34194038, 34198999, 34202041, 34226042, 34226186, 34231992, 34234039,
    34234119, 34250043, 34985225, 34986989, 34987025, 34987033, 34990190, 34990206,
    34991087, 34994996, 34995026, 34995187, 34997077, 34999159, 35000168, 35001995,
    35002074, 35005149, 35008128, 35008987, 35010130, 35011012, 35012011, 35013061,
    35015111, 35016011, 35016056, 35017097, 35018011, 35020011, 35020092, 35021019,
    35022011, 35025019, 35025073, 35026011, 35026066, 35027995, 35028011, 35028027,
    35029019, 35030011, 35030027, 35031995, 35032011, 35032027, 35034011, 35034027,
    35035996, 35036012, 35036028, 35036989, 35038030, 35040016, 35040032, 35042002,
    35042034, 35043036, 35043038, 35043040, 35043042, 35044004, 35044997, 35046022,
    35048024, 35052012, 35056032, 35059036, 35059046, 35059052, 35059054, 35061013,
    35061115, 35062022, 35064024, 35068028, 35068989, 35070155, 35072032, 35072155,
    35074002, 35074107, 35074155, 35075036, 35075038, 35075048, 35075052, 35075064,
    35076155, 35078155, 35083037, 35083069, 35083073, 35086107, 35087131, 35087195,
    35089009, 35098155, 35098251, 35100155, 35100235, 35101021, 35103131, 35107038,
    35107068, 35107092, 35111992, 35113994, 35115037, 35115069, 35115093, 35115113,
    35118155, 35120155, 35122155, 35124155, 35126203, 35131039, 35134014, 35136016,
    35140235, 35151195, 35152251, 35154203, 35155036, 35155038, 35155040, 35155042,
    35155130, 35167007, 35179041, 35179101, 35179137, 35180235, 35188251, 35195039,
    35195103, 35200000, 35203042, 35220235, 35227043, 35227171, 35227187, 35232993,
    35235040, 35235120, 35236997, 35251044, 35986226, 35987990, 35988026, 35991191,
    35991207, 35992088, 35995997, 35996027, 35996188, 35998078, 36000160, 36001169,
    36002996, 36003075, 36006150, 36007127, 36009129, 36009988, 36011131, 36012013,
    36012031, 36012035, 36014062, 36016112, 36017057, 36018098, 36021093, 36023012,
    36025049, 36026074, 36027067, 36028996, 36031055, 36035059, 36036997, 36037044,
    36037990, 36041044, 36043044, 36043060, 36043076, 36049060, 36049076, 36053060,
    36057076, 36057108, 36062116, 36069029, 36070084, 36075108, 36075156, 36076037,
    36076065, 36077156, 36078116, 36078180, 36079156, 36084038, 36087108, 36088196,
    36094116, 36101236, 36102022, 36108039, 36108069, 36108093, 36112993, 36114180,
    36116038, 36123156, 36125156, 36132040, 36132080, 36132104, 36132112, 36135015,
    36140228, 36152196, 36156037, 36156039, 36156041, 36156087, 36156089, 36156121,
    36156131, 36156153, 36156155, 36168008, 36172228, 36180042, 36180138, 36188169,
    36189252, 36196040, 36196104, 36201001, 36204043, 36204113, 36204155, 36204169,
    36228044, 36233994, 36236041, 36236121, 36236131, 36236181, 36236201, 36236231,
    36252045, 36252207, 36987227, 36988991, 36989027, 36989035, 36992192, 36992208,
    36993089, 36996998, 36997028, 36997189, 36999079, 37001161, 37002170, 37003997,
    37004076, 37007151, 37010130, 37010989, 37012132, 37013014, 37014013, 37015063,
    37017113, 37018013, 37018058, 37019099, 37020013, 37022013, 37022094, 37023021,
    37024013, 37027021, 37027075, 37028013, 37028068, 37029997, 37030013, 37030029,
    37031021, 37032013, 37032029, 37033997, 37034013, 37034029, 37036013, 37036029,
    37037998, 37038014, 37038030, 37038991, 37040032, 37042018, 37042034, 37044004,
    37044036, 37045038, 37045040, 37045042, 37045044, 37046006, 37046999, 37048024,
    37050026, 37050077, 37054014, 37058034, 37061038, 37061048, 37061054, 37061056,
    37063015, 37063085, 37063117, 37064024, 37066077, 37070030, 37070991, 37071085,
    37074034, 37074077, 37074157, 37076004, 37076157, 37077038, 37077040, 37077054,
    37078157, 37080157, 37085039, 37089197, 37091011, 37095117, 37102237, 37103023,
    37109040, 37109088, 37113994, 37115181, 37115996, 37117039, 37117071, 37122157,
    37124157, 37126157, 37133041, 37133081, 37133105, 37133113, 37136016, 37138018,
    37156205, 37157038, 37157040, 37157042, 37157044, 37157088, 37157154, 37169009,
    37173229, 37181043, 37181103, 37181139, 37181151, 37182237, 37190253, 37197041,
    37197105, 37197153, 37197193, 37202002, 37205044, 37205170, 37229045, 37229189,
    37234995, 37237042, 37237122, 37238999, 37253046, 37253136, 37253208, 37988228,
    37989992, 37990028, 37993193, 37993209, 37994090, 37997999, 37998029, 37998190,
    38000080, 38002162, 38003171, 38004998, 38005077, 38008152, 38009129, 38011131,
    38011990, 38013133, 38014015, 38014033, 38014037, 38016064, 38018114, 38019059,
    38020100, 38023095, 38025014, 38027051, 38028076, 38029069, 38030998, 38033057,
    38037061, 38037157, 38038999, 38039046, 38039992, 38043046, 38045046, 38045062,
    38051062, 38051078, 38055062, 38059110, 38064118, 38066134, 38067078, 38071031,
    38075158, 38077158, 38078039, 38078055, 38078077, 38079158, 38081158, 38086040,
    38086060, 38086072, 38086076, 38090134, 38090198, 38096118, 38103238, 38104024,
    38106134, 38110041, 38110089, 38114995, 38116182, 38118040, 38118072, 38122198,
    38123158, 38125158, 38127158, 38134042, 38137017, 38139019, 38140182, 38157206,
    38158039, 38158041, 38158043, 38158089, 38158155, 38170010, 38174230, 38182044,
    38182104, 38182152, 38183238, 38191254, 38198042, 38198154, 38198194, 38203003,
    38206045, 38206171, 38230046, 38230190, 38235996, 38238043, 38238123, 38254047,
    38254137, 38254209, 38985225, 38989229, 38990993, 38991029, 38991037, 38994194,
    38994210, 38995091, 38999000, 38999030, 38999191, 39001081, 39003163, 39004172,
    39005999, 39006078, 39009153, 39012132, 39012991, 39014134, 39015016, 39016015,
    39017065, 39019115, 39020015, 39020060, 39021101, 39022015, 39024015, 39024096,
    39025023, 39026015, 39029023, 39029077, 39030015, 39030070, 39031999, 39032015,
    39032031, 39034015, 39034031, 39035999, 39036015, 39036031, 39038015, 39038031,
    39040000, 39040016, 39040032, 39040993, 39042034, 39044020, 39044036, 39046006,
    39046038, 39047040, 39047042, 39047044, 39047046, 39048008, 39049001, 39050026,
    39052028, 39056016, 39060036, 39063040, 39063050, 39063056, 39063058, 39065017,
    39068028, 39072032, 39072993, 39076036, 39078006, 39078111, 39078159, 39079040,
    39079042, 39079052, 39079056, 39079068, 39080159, 39082159, 39087041, 39087073,
    39087077, 39090111, 39091199, 39093013, 39104239, 39105025, 39107135, 39111042,
    39111072, 39111096, 39115996, 39117998, 39119041, 39119065, 39119073, 39119097,
    39119117, 39126159, 39128159, 39135043, 39135115, 39138018, 39140020, 39141183,
    39156255, 39158207, 39159040, 39159042, 39159044, 39159046, 39159090, 39159092,
    39159124, 39171011, 39175231, 39183045, 39183105, 39183153, 39184239, 39192255,
    39199043, 39199107, 39199155, 39199195, 39204004, 39207046, 39231047, 39231191,
    39236997, 39239044, 39239124, 39241001, 39255048, 39255138, 39255210, 39985105,
    39985249, 39986226, 39990230, 39991994, 39992030, 39995195, 39995211, 39996092,
    40000001, 40000031, 40000192, 40002082, 40004164, 40005173, 40007000, 40007079,
    40010154, 40013133, 40013992, 40015135, 40016017, 40016033, 40016035, 40016039,
    40018066, 40020116, 40021061, 40022102, 40025097, 40027016, 40029053, 40030078,
    40031071, 40033057, 40035059, 40039063, 40039159, 40041001, 40041048, 40041994,
    40045048, 40047048, 40047064, 40047080, 40053064, 40053080, 40057064, 40061080,
    40061112, 40066088, 40066120, 40074088, 40079112, 40079160, 40080041, 40080069,
    40081160, 40082120, 40082184, 40083160, 40088042, 40091112, 40092200, 40098120,
    40104985, 40105240, 40106026, 40108136, 40112043, 40112073, 40112097, 40116997,
    40118184, 40120042, 40127160, 40129160, 40136044, 40136116, 40139019, 40142184,
    40156200, 40159208, 40160041, 40160043, 40160045, 40160091, 40160093, 40160125,
    40172012, 40176232, 40184046, 40184154, 40185240, 40200044, 40200108, 40205005,
    40208047, 40232048, 40232192, 40237998, 40240045, 40240125, 40986106, 40986250,
    40987227, 40991231, 40992995, 40993031, 40993039, 40996196, 40996212, 40997093,
    41001002, 41001032, 41001193, 41003083, 41005165, 41006174, 41008001, 41008080,
    41011155, 41012132, 41014134, 41014993, 41016136, 41017018, 41018017, 41019067,
    41021117, 41022017, 41022062, 41023103, 41024017, 41026017, 41026098, 41027025,
    41028017, 41031025, 41031079, 41032017, 41032072, 41033985, 41034001, 41034017,
    41034033, 41036017, 41036033, 41038001, 41038017, 41038033, 41040017, 41040033,
    41042002, 41042018, 41042034, 41042995, 41044036, 41046022, 41046038, 41048008,
    41048040, 41049042, 41049044, 41049046, 41049048, 41050010, 41051003, 41052028,
    41054030, 41054081, 41058018, 41058065, 41062038, 41065042, 41067019, 41067089,
    41067121, 41068028, 41070081, 41074034, 41074995, 41075089, 41078038, 41078081,
    41078161, 41080008, 41080161, 41081042, 41081044, 41081058, 41082161, 41084161,
    41089043, 41093201, 41095015, 41099121, 41105986, 41106241, 41107027, 41113044,
    41113092, 41117998, 41119185, 41120000, 41121043, 41121075, 41126161, 41128161,
    41130161, 41132209, 41137045, 41137085, 41137109, 41137117, 41140020, 41142022,
    41143185, 41157201, 41160209, 41161042, 41161044, 41161046, 41161048, 41161092,
    41173013, 41177233, 41185047, 41185107, 41185155, 41186241, 41201045, 41201109,
    41206006, 41209048, 41233049, 41233193, 41238999, 41241046, 41241126, 41243003,
    41985105, 41987107, 41987251, 41988228, 41992232, 41993996, 41994032, 41997197,
    41997213, 41998094, 42002003, 42002033, 42002194, 42004084, 42006166, 42007175,
    42009002, 42009081, 42012156, 42013133, 42015135, 42015994, 42017137, 42018019,
    42018035, 42018037, 42018041, 42020068, 42022118, 42023063, 42024104, 42027099,
    42029018, 42031055, 42032080, 42033073, 42035059, 42037061, 42041161, 42043003,
    42043050, 42043996, 42047050, 42049050, 42049066, 42055082, 42063114, 42066059,
    42066061, 42068122, 42070138, 42071082, 42079162, 42081162, 42082043, 42082059,
    42082081, 42083162, 42085162, 42090044, 42090064, 42090076, 42090080, 42094138,
    42094202, 42100122, 42106987, 42107242, 42108028, 42110138, 42114045, 42114093,
    42118999, 42120186, 42122044, 42122076, 42126202, 42127162, 42129162, 42131162,
    42133210, 42138046, 42141021, 42144186, 42158202, 42161210, 42162043, 42162045,
    42162047, 42162093, 42174014, 42178234, 42186048, 42186108, 42187242, 42202046,
    42207007, 42210049, 42234050, 42234194, 42240000, 42242047, 42242127, 42986106,
    42988108, 42988252, 42989229, 42993233, 42994997, 42995033, 42995041, 42998198,
    42998214, 42999095, 43003004, 43003034, 43003195, 43005085, 43007167, 43008176,
    43010003, 43010082, 43013157, 43016136, 43016995, 43018138, 43019020, 43020019,
    43021069, 43023119, 43024019, 43024064, 43025105, 43026019, 43028019, 43028100,
    43029027, 43030019, 43033081, 43034019, 43034074, 43035987, 43036003, 43036019,
    43036035, 43038019, 43038035, 43040003, 43040019, 43040035, 43042019, 43042035,
    43044004, 43044020, 43044036, 43044997, 43046038, 43048024, 43048040, 43050010,
    43050042, 43051044, 43051046, 43051048, 43051050, 43052012, 43053005, 43054030,
    43056032, 43057986, 43060020, 43064040, 43067044, 43067054, 43067060, 43067062,
    43069021, 43072032, 43076036, 43076997, 43078163, 43080040, 43080163, 43082010,
    43082115, 43082163, 43083044, 43083046, 43083056, 43083060, 43083072, 43084163,
    43086163, 43091045, 43091065, 43091077, 43091081, 43094115, 43095139, 43095203,
    43097017, 43106163, 43107988, 43108163, 43108243, 43109029, 43111139, 43115046,
    43115076, 43115100, 43120000, 43122002, 43123045, 43123069, 43123077, 43123101,
    43123121, 43126163, 43128163, 43130163, 43132163, 43134211, 43139047, 43142022,
    43144024, 43148243, 43159203, 43162211, 43163044, 43163046, 43163048, 43163050,
    43163138, 43175015, 43187049, 43187109, 43187145, 43188243, 43203047, 43203111,
    43208008, 43211050, 43228243, 43235051, 43235131, 43235179, 43235195, 43241001,
    43243048, 43243128, 43245005, 43986226, 43987107, 43989109, 43989253, 43990230,
    43994234, 43995998, 43996034, 43999199, 43999215, 44000096, 44004005, 44004035,
    44004196, 44006086, 44008168, 44009177, 44011004, 44011083, 44013133, 44014158,
    44015135, 44017137, 44017996, 44019139, 44020021, 44020037, 44020039, 44020043,
    44022070, 44024120, 44025065, 44026106, 44029101, 44031020, 44033057, 44034082,
    44035075, 44037061, 44039063, 44043067, 44045005, 44045052, 44045998, 44049052,
    44051052, 44051068, 44051084, 44057068, 44057084, 44061068, 44070092, 44070124,
    44078092, 44083116, 44083164, 44084045, 44084073, 44085164, 44086124, 44086188,
    44087164, 44092046, 44095116, 44096204, 44102124, 44108989, 44109244, 44110030,
    44116047, 44116077, 44116101, 44121001, 44122188, 44124046, 44133164, 44140048,
    44140088, 44140112, 44140120, 44143023, 44148236, 44160204, 44164045, 44164047,
    44164049, 44164095, 44164097, 44164129, 44164131, 44164139, 44164161, 44164163,
    44176016, 44180236, 44188050, 44188146, 44196177, 44204048, 44204112, 44209009,
    44212051, 44212121, 44212163, 44212177, 44236052, 44242002, 44244049, 44244129,
    44244139, 44244189, 44244209, 44244239, 44988108, 44990110, 44990254, 44991231,
    44995235, 44996999, 44997035, 44997043, 45000200, 45000216, 45001097, 45005006,
    45005036, 45005197, 45007087, 45009169, 45010178, 45012005, 45012084, 45015159,
    45018138, 45018997, 45020140, 45021022, 45022021, 45023071, 45025121, 45026021,
    45026066, 45027107, 45028021, 45030021, 45030102, 45031029, 45032021, 45035083,
    45036021, 45036076, 45037989, 45038005, 45038021, 45038037, 45040021, 45040037,
    45042005, 45042021, 45042037, 45044021, 45044037, 45046006, 45046022, 45046038,
    45046999, 45048040, 45050026, 45050042, 45052012, 45052044, 45053046, 45053048,
    45053050, 45053052, 45054014, 45055007, 45056032, 45058034, 45058085, 45059988,
    45062022, 45062069, 45066069, 45066085, 45066117, 45069046, 45071023, 45071093,
    45071125, 45072032, 45074085, 45078038, 45078999, 45079093, 45082042, 45082085,
    45082165, 45084012, 45084165, 45085046, 45085048, 45085062, 45086165, 45088165,
    45093047, 45097205, 45099019, 45103125, 45109990, 45110245, 45111031, 45117048,
    45117096, 45122002, 45123189, 45124004, 45125047, 45125079, 45132165, 45134165,
    45141049, 45141089, 45141113, 45141121, 45144024, 45146026, 45164213, 45165046,
    45165048, 45165050, 45165052, 45165096, 45165130, 45165162, 45177017, 45181237,
    45189051, 45189111, 45189147, 45189159, 45190245, 45205049, 45205113, 45205161,
    45205201, 45210010, 45213052, 45213178, 45237053, 45237197, 45243003, 45245050,
    45245130, 45247007, 45985105, 45988228, 45989109, 45991111, 45991255, 45992232,
    45996236, 45998000, 45998036, 46001201, 46001217, 46002098, 46006007, 46006037,
    46006198, 46008088, 46010170, 46011179, 46013006, 46013085, 46016160, 46017137,
    46019139, 46019998, 46021141, 46022023, 46022039, 46022041, 46022045, 46024072,
    46026122, 46027067, 46028108, 46031103, 46033057, 46035059, 46036084, 46037077,
    46039063, 46041065, 46045165, 46047007, 46047054, 46048000, 46051054, 46053054,
    46053070, 46059086, 46067118, 46070063, 46070065, 46072126, 46074142, 46075086,
    46083166, 46085166, 46086047, 46086063, 46086065, 46086085, 46087166, 46089166,
    46094048, 46094068, 46094080, 46094084, 46098142, 46098206, 46104126, 46110991,
    46111246, 46112032, 46114142, 46118049, 46118097, 46123003, 46124190, 46126048,
    46126080, 46133166, 46135166, 46142050, 46145025, 46147027, 46148190, 46165214,
    46166047, 46166049, 46166051, 46166097, 46166131, 46166163, 46178018, 46182238,
    46190052, 46190112, 46190160, 46191246, 46206050, 46206162, 46206202, 46211011,
    46214053, 46214179, 46238054, 46238198, 46244004, 46246051, 46246131, 46990110,
    46992112, 46993233, 46997237, 46999001, 46999033, 46999037, 46999045, 47002202,
    47002218, 47003099, 47007008, 47007038, 47007199, 47009089, 47011171, 47012180,
    47014007, 47014086, 47017161, 47020140, 47020999, 47022142, 47023024, 47024023,
    47025073, 47027123, 47028023, 47028068, 47029109, 47030023, 47032023, 47032104,
    47034023, 47037085, 47038023, 47038078, 47039991, 47040007, 47040023, 47040039,
    47042023, 47042039, 47042066, 47044007, 47044023, 47044039, 47046023, 47046039,
    47048008, 47048024, 47048040, 47049001, 47050042, 47052028, 47052044, 47054014,
    47054046, 47055048, 47055050, 47055052, 47055054, 47056016, 47057009, 47058034,
    47060036, 47061990, 47064024, 47064985, 47068044, 47071048, 47071058, 47071064,
    47073025, 47076036, 47080040, 47081001, 47084044, 47086014, 47086119, 47086167,
    47087048, 47087050, 47087060, 47087064, 47087076, 47088167, 47090167, 47095049,
    47095069, 47095081, 47095085, 47098119, 47099207, 47101021, 47111992, 47112247,
    47113033, 47115143, 47119050, 47119080, 47119104, 47124004, 47126006, 47127049,
    47127073, 47127081, 47127105, 47127125, 47132167, 47134167, 47136167, 47143051,
    47143123, 47146026, 47148028, 47149191, 47166215, 47167048, 47167050, 47167052,
    47167054, 47167098, 47167100, 47179019, 47183239, 47191053, 47191113, 47191161,
    47192247, 47207051, 47207115, 47207163, 47207203, 47212012, 47215054, 47239055,
    47239199, 47245005, 47247052, 47247132, 47249009, 47987107, 47990230, 47991111,
    47993113, 47994234, 47998238, 48000002, 48000038, 48003203, 48003219, 48004100,
    48008009, 48008039, 48008200, 48010090, 48012172, 48013181, 48015008, 48015087,
    48018162, 48021141, 48022000, 48023143, 48024025, 48024041, 48024043, 48024047,
    48026074, 48028124, 48029069, 48030110, 48033105, 48035059, 48037061, 48038086,
    48039079, 48043067, 48047071, 48047167, 48049009, 48049056, 48050002, 48053056,
    48055056, 48055072, 48055088, 48061072, 48061088, 48072065, 48074096, 48074128,
    48082096, 48087120, 48087168, 48088049, 48088065, 48088077, 48089168, 48090128,
    48090192, 48091168, 48096050, 48099120, 48100208, 48106128, 48112993, 48113248,
    48114034, 48116144, 48120051, 48120081, 48120105, 48125005, 48126192, 48128050,
    48132208, 48133168, 48135168, 48137168, 48144052, 48144124, 48147027, 48150192,
    48164208, 48167216, 48168049, 48168051, 48168053, 48168099, 48168101, 48180020,
    48184240, 48192054, 48192162, 48193248, 48208052, 48208116, 48213013, 48216055,
    48240056, 48240200, 48246006, 48248053, 48248133, 48992112, 48994114, 48995235,
    48999239, 49001003, 49001035, 49001039, 49001047, 49004204, 49004220, 49005101,
    49009010, 49009040, 49009201, 49011091, 49013173, 49014182, 49016009, 49016088,
    49019163, 49020140, 49022142, 49023001, 49024144, 49025026, 49026025, 49027075,
    49029125, 49030025, 49030070, 49031111, 49032025, 49034025, 49034106, 49036025,
    49039087, 49040025, 49040080, 49041993, 49042009, 49042025, 49042041, 49044025,
    49044041, 49046009, 49046025, 49046041, 49048025, 49048041, 49050010, 49050026,
    49050042, 49051003, 49052044, 49054030, 49054046, 49056016, 49056048, 49057050,
    49057052, 49057054, 49057056, 49058018, 49059011, 49060036, 49062038, 49062089,
    49063065, 49063992, 49066073, 49066987, 49070073, 49070089, 49070121, 49073050,
    49075027, 49075097, 49075129, 49076036, 49078089, 49082042, 49083003, 49083097,
    49086046, 49086089, 49086169, 49088016, 49088169, 49089050, 49089052, 49090169,
    49092169, 49097051, 49101209, 49103023, 49107129, 49113994, 49114249, 49115035,
    49121052, 49121100, 49126006, 49127193, 49128008, 49129051, 49129083, 49132169,
    49133209, 49134169, 49136169, 49138169, 49140217, 49145053, 49145093, 49145117,
    49145125, 49148028, 49150030, 49151193, 49165209, 49168217, 49169050, 49169052,
    49169054, 49169056, 49169100, 49181021, 49185241, 49193055, 49193115, 49193163,
    49194249, 49209053, 49209117, 49214014, 49217056, 49241057, 49241201, 49247007,
    49249054, 49249134, 49251011, 49989109, 49992232, 49993113, 49995115, 49996236,
    50000240, 50002004, 50002040, 50005205, 50005221, 50006102, 50010011, 50010041,
    50010202, 50012092, 50014174, 50015183, 50017010, 50017089, 50020164, 50021141,
    50023143, 50024002, 50025145, 50026027, 50026043, 50026045, 50026049, 50028076,
    50030126, 50031071, 50032112, 50035107, 50037061, 50039063, 50040088, 50041081,
    50043067, 50045069, 50049169, 50051011, 50051058, 50052004, 50055058, 50057058,
    50057074, 50063090, 50066064, 50071122, 50074065, 50074067, 50074069, 50076130,
    50078146, 50079090, 50087170, 50089170, 50090051, 50090067, 50090069, 50090089,
    50091170, 50093170, 50098052, 50098072, 50098084, 50098088, 50102146, 50102210,
    50108130, 50114995, 50115250, 50116036, 50118146, 50122053, 50122101, 50127007,
    50128194, 50130052, 50130084, 50131011, 50133170, 50134210, 50135170, 50137170,
    50139170, 50141218, 50146054, 50149029, 50152194, 50166210, 50169218, 50170051,
    50170053, 50170055, 50170101, 50182022, 50186242, 50194056, 50194116, 50195250,
    50210054, 50215015, 50218057, 50242058, 50242202, 50248008, 50250055, 50250135,
    50985129, 50994114, 50996116, 50997237, 51001241, 51003005, 51003037, 51003041,
    51003049, 51006206, 51006222, 51007103, 51011012, 51011042, 51011203, 51013093,
    51015175, 51016184, 51018011, 51018090, 51021165, 51024144, 51025003, 51026146,
    51027028, 51028027, 51029077, 51031127, 51032027, 51032072, 51033113, 51034027,
    51036027, 51036108, 51038027, 51041089, 51042027, 51042082, 51043995, 51044011,
    51044027, 51044043, 51046027, 51046043, 51046070, 51048011, 51048027, 51048043,
    51050027, 51050043, 51052012, 51052028, 51052044, 51053005, 51054046, 51056032,
    51056048, 51058018, 51058050, 51059052, 51059054, 51059056, 51059058, 51060020,
    51061013, 51062038, 51064040, 51064985, 51065994, 51067065, 51068028, 51068989,
    51072048, 51075052, 51075062, 51075068, 51077029, 51077131, 51080040, 51084044,
    51085005, 51086171, 51088048, 51088171, 51090018, 51090123, 51090171, 51091052,
    51091054, 51091064, 51091068, 51091080, 51092171, 51094171, 51099053, 51099073,
    51099085, 51099089, 51102123, 51103147, 51103211, 51105025, 51109131, 51114171,
    51115996, 51116171, 51116251, 51117037, 51119147, 51123054, 51123084, 51123108,
    51128008, 51128985, 51130010, 51131053, 51131085, 51132171, 51134171, 51136171,
    51138171, 51140171, 51142219, 51147055, 51150030, 51152032, 51156251, 51167211,
    51170219, 51171052, 51171054, 51171056, 51171058, 51171146, 51183023, 51195057,
    51195117, 51195153, 51196251, 51211055, 51211119, 51216016, 51219058, 51236251,
    51243059, 51243139, 51243187, 51243203, 51249009, 51251056, 51251136, 51253013,
    51986130, 51991111, 51994234, 51995115, 51997117, 51998238, 52002242, 52004006,
    52004042, 52007207, 52007223, 52008104, 52012013, 52012043, 52012204, 52014094,
    52016176, 52017185, 52019012, 52019091, 52021141, 52022166, 52023143, 52025145,
    52026004, 52027147, 52028029, 52028033, 52028045, 52028047, 52028051, 52030078,
    52032128, 52033073, 52034114, 52037109, 52039063, 52041065, 52042090, 52043083,
    52047071, 52051075, 52053013, 52053060, 52054006, 52057060, 52059060, 52059076,
    52059092, 52066068, 52066100, 52076069, 52078100, 52078132, 52086100, 52091124,
    52091172, 52092053, 52092065, 52092069, 52092081, 52093172, 52094196, 52095172,
    52100054, 52103124, 52104212, 52110132, 52116997, 52117252, 52118038, 52124055,
    52124085, 52124109, 52129009, 52131011, 52132054, 52132086, 52132130, 52141172,
    52148056, 52148096, 52148120, 52148128, 52151031, 52156244, 52168212, 52172053,
    52172055, 52172057, 52172103, 52172105, 52172137, 52172139, 52172147, 52172169,
    52172171, 52184024, 52188244, 52196058, 52196154, 52204185, 52212056, 52212120,
    52217017, 52220059, 52220129, 52220171, 52220185, 52244060, 52250010, 52252057,
    52252137, 52252147, 52252197, 52252217, 52252247, 52987131, 52996116, 52998118,
    52999239, 53003243, 53005007, 53005039, 53005043, 53005051, 53008208, 53008224,
    53009105, 53013014, 53013044, 53013205, 53015095, 53017177, 53018186, 53020013,
    53020092, 53023167, 53026146, 53027005, 53028148, 53029030, 53030029, 53031079,
    53033129, 53034029, 53034074, 53035115, 53036029, 53038029, 53038110, 53040029,
    53042066, 53043091, 53044029, 53044084, 53045997, 53046013, 53046029, 53046045,
    53048029, 53048045, 53050013, 53050029, 53050045, 53052029, 53052045, 53054014,
    53054030, 53054046, 53055007, 53056048, 53058034, 53058050, 53060020, 53060052,
    53061054, 53061056, 53061058, 53061060, 53062022, 53063015, 53064040, 53066042,
    53066077, 53066093, 53066987, 53067069, 53067996, 53070077, 53070991, 53074077,
    53074093, 53074125, 53077054, 53079031, 53079101, 53079133, 53080040, 53082093,
    53086046, 53087007, 53087101, 53090050, 53090093, 53090173, 53092020, 53092173,
    53093054, 53093056, 53094173, 53096173, 53101055, 53105213, 53107027, 53111133,
    53117998, 53118253, 53119039, 53125056, 53125104, 53130010, 53130987, 53132012,
    53133055, 53133087, 53133131, 53140173, 53142173, 53149057, 53149097, 53149121,
    53149129, 53152032, 53154034, 53172221, 53173054, 53173056, 53173058, 53173060,
    53173104, 53173138, 53173170, 53185025, 53189245, 53197059, 53197119, 53197155,
    53197167, 53198253, 53213057, 53213121, 53213169, 53213209, 53218018, 53221060,
    53221130, 53221186, 53245061, 53245205, 53251011, 53253058, 53253138, 53255015,
    53988132, 53993113, 53996236, 53997117, 53999119, 54000240, 54004244, 54006008,
    54006044, 54009209, 54009225, 54010106, 54014015, 54014045, 54014206, 54016096,
    54018178, 54019187, 54021014, 54021093, 54024168, 54025145, 54027147, 54028006,
    54029149, 54030031, 54030035, 54030047, 54030049, 54030053, 54032080, 54034130,
    54035075, 54036116, 54039111, 54043067, 54044092, 54045085, 54047071, 54049073,
    54053173, 54055015, 54055062, 54056008, 54059062, 54061062, 54061078, 54067094,
    54070068, 54075126, 54078065, 54078069, 54078071, 54078073, 54080134, 54082150,
    54083094, 54091174, 54093174, 54094055, 54094071, 54094073, 54094093, 54095174,
    54097174, 54102056, 54102076, 54102088, 54102092, 54106150, 54106214, 54112134,
    54118999, 54119254, 54120040, 54122150, 54126057, 54126105, 54131011, 54132198,
    54134056, 54134088, 54141174, 54143174, 54150058, 54150130, 54153033, 54156198,
    54173222, 54174055, 54174057, 54174059, 54174105, 54174139, 54174171, 54186026,
    54190246, 54198060, 54198120, 54198168, 54199254, 54214058, 54214170, 54214210,
    54219019, 54222061, 54222131, 54222187, 54246062, 54246206, 54252012, 54254059,
    54254139, 54989133, 54998118, 55000120, 55001241, 55005245, 55007009, 55007041,
    55007045, 55007053, 55010210, 55010226, 55011107, 55015016, 55015046, 55015207,
    55017097, 55019179, 55020188, 55022015, 55022094, 55025169, 55028148, 55029007,
    55030150, 55031032, 55032031, 55033081, 55035131, 55036031, 55036076, 55037117,
    55038031, 55040031, 55040112, 55042031, 55045093, 55046031, 55046086, 55047999,
    55048015, 55048031, 55048047, 55050031, 55050047, 55050074, 55052015, 55052031,
    55052047, 55054031, 55054047, 55056016, 55056032, 55056048, 55057009, 55057986,
    55058050, 55060036, 55060052, 55062022, 55062054, 55063056, 55063058, 55063060,
    55063062, 55064024, 55065017, 55068044, 55068989, 55069998, 55071065, 55071069,
    55072032, 55072993, 55076052, 55079056, 55079072, 55081033, 55084044, 55088048,
    55089009, 55092052, 55094022, 55094127, 55094175, 55095056, 55095058, 55095068,
    55095072, 55095084, 55096175, 55098175, 55103057, 55103077, 55103089, 55103093,
    55105986, 55106127, 55107215, 55109029, 55120000, 55120255, 55121041, 55123151,
    55127058, 55127088, 55127112, 55132012, 55132989, 55133199, 55134014, 55135057,
    55135081, 55135089, 55135113, 55140175, 55142175, 55144175, 55151059, 55151131,
    55154034, 55156036, 55157199, 55174223, 55175056, 55175058, 55175060, 55175062,
    55175106, 55175108, 55187027, 55191247, 55199061, 55199121, 55199169, 55200255,
    55215059, 55215123, 55215171, 55215211, 55220020, 55223062, 55247063, 55247207,
    55253013, 55255060, 55255140, 55990134, 55995115, 55998238, 55999119, 56001121,
    56002242, 56006246, 56008010, 56008046, 56011211, 56011227, 56012108, 56016017,
    56016047, 56016208, 56018098, 56020180, 56021189, 56023016, 56023095, 56026170,
    56029149, 56030008, 56031151, 56032033, 56032037, 56032049, 56032051, 56032055,
    56034082, 56036132, 56037077, 56038118, 56041113, 56043067, 56045069, 56046094,
    56047087, 56051075, 56055079, 56055175, 56057017, 56057064, 56058010, 56061064,
    56063064, 56063080, 56063096, 56066072, 56070072, 56070104, 56070136, 56073033,
    56080073, 56082104, 56082136, 56090104, 56095128, 56095176, 56096057, 56096069,
    56096073, 56096085, 56097176, 56098136, 56098200, 56099176, 56104058, 56104985,
    56107128, 56108216, 56114136, 56121001, 56122042, 56124152, 56128059, 56128089,
    56128113, 56133013, 56134200, 56136058, 56140216, 56141176, 56143176, 56145176,
    56152060, 56155035, 56158200, 56172216, 56175224, 56176057, 56176059, 56176061,
    56176107, 56176109, 56188028, 56192248, 56200062, 56200170, 56216060, 56216124,
    56221021, 56224063, 56248064, 56248208, 56254014, 56984988, 56985042, 56991135,
    57000120, 57002122, 57003243, 57007247, 57009011, 57009043, 57009047, 57009055,
    57012212, 57012228, 57013109, 57017018, 57017048, 57017209, 57017985, 57019099,
    57021181, 57022190, 57024017, 57024096, 57027171, 57028148, 57030150, 57031009,
    57032152, 57034033, 57035083, 57036033, 57037133, 57038033, 57038078, 57039119,
    57040033, 57042033, 57042114, 57044033, 57046033, 57046070, 57047095, 57048033,
    57048088, 57050001, 57050017, 57050033, 57050049, 57052033, 57052049, 57053985,
    57054017, 57054033, 57054049, 57056033, 57056049, 57058018, 57058034, 57058050,
    57059011, 57059988, 57060052, 57062038, 57062054, 57064024, 57064056, 57064065,
    57065058, 57067019, 57068044, 57070046, 57070081, 57070097, 57070991, 57071073,
    57072000, 57074081, 57074995, 57078081, 57078097, 57078129, 57081058, 57083105,
    57083137, 57084044, 57086097, 57090050, 57091011, 57091105, 57094054, 57094097,
    57094177, 57096024, 57096177, 57097058, 57097060, 57098177, 57100177, 57105059,
    57105986, 57107988, 57109217, 57111031, 57115137, 57122002, 57123043, 57129060,
    57129108, 57134014, 57134991, 57135201, 57136016, 57137059, 57137091, 57140177,
    57141217, 57142177, 57144177, 57146177, 57148225, 57153061, 57153101, 57153125,
    57156036, 57158038, 57159201, 57173217, 57176225, 57177058, 57177060, 57177062,
    57177064, 57177108, 57189029, 57193249, 57201063, 57201123, 57201171, 57217061,
    57217125, 57222022, 57225064, 57249065, 57249209, 57255015, 57985989, 57986043,
    57986055, 57992136, 57997117, 58000240, 58001121, 58003123, 58004244, 58008248,
    58010012, 58010048, 58013213, 58013229, 58014110, 58018019, 58018049, 58018210,
    58018986, 58020100, 58022182, 58023191, 58025018, 58025097, 58028172, 58029149,
    58031151, 58032010, 58033153, 58034035, 58034039, 58034051, 58034053, 58034057,
    58036084, 58038134, 58039079, 58040120, 58043115, 58047071, 58048096, 58049089,
    58051075, 58053077, 58057177, 58059019, 58059066, 58060012, 58066065, 58071098,
    58074072, 58079130, 58082069, 58082073, 58082075, 58082077, 58084138, 58086154,
    58087098, 58095178, 58097178, 58098059, 58098075, 58098077, 58098097, 58099178,
    58101178, 58106060, 58106080, 58106092, 58106096, 58106987, 58110154, 58110218,
    58116138, 58123003, 58124044, 58126154, 58130061, 58130109, 58132138, 58135015,
    58136202, 58138060, 58138092, 58139019, 58141178, 58142218, 58143178, 58145178,
    58147178, 58149226, 58154062, 58157037, 58160202, 58174218, 58177226, 58178059,
    58178061, 58178063, 58178065, 58178109, 58190030, 58194250, 58202064, 58202124,
    58218062, 58223023, 58226065, 58250066, 58250210, 58986990, 58987044, 58993137,
    59002122, 59004124, 59005245, 59009249, 59011013, 59011045, 59011049, 59011057,
    59014214, 59014230, 59015111, 59019020, 59019050, 59019211, 59019987, 59021101,
    59023183, 59024192, 59026019, 59026098, 59029173, 59032152, 59034154, 59036035,
    59037085, 59038035, 59039135, 59040035, 59040080, 59041121, 59042035, 59044035,
    59044116, 59046035, 59048035, 59049097, 59050035, 59050090, 59052003, 59052019,
    59052035, 59052051, 59054035, 59054051, 59054078, 59055987, 59056019, 59056035,
    59056051, 59058035, 59058051, 59060020, 59060036, 59060052, 59061013, 59061990,
    59062054, 59064040, 59064056, 59065049, 59066058, 59066067, 59066083, 59066099,
    59067060, 59067062, 59067064, 59068028, 59069021, 59072048, 59072993, 59074002,
    59075065, 59075069, 59075073, 59076036, 59076997, 59080056, 59083060, 59083076,
    59085037, 59085139, 59088048, 59092052, 59093013, 59094179, 59096056, 59096179,
    59098026, 59098131, 59098179, 59099060, 59099062, 59099072, 59099076, 59099088,
    59100179, 59102179, 59107061, 59107081, 59107093, 59107097, 59107988, 59109990,
    59110131, 59111155, 59111219, 59117139, 59122179, 59124004, 59124179, 59125045,
    59127155, 59131062, 59133139, 59136016, 59136993, 59138018, 59139061, 59139065,
    59139093, 59140179, 59142179, 59144179, 59146179, 59148179, 59150227, 59155063,
    59158038, 59160040, 59175219, 59178227, 59179060, 59179062, 59179064, 59179154,
    59191031, 59203065, 59203125, 59203161, 59219063, 59219127, 59224024, 59227066,
    59251067, 59251147, 59251195, 59251211, 59987991, 59988045, 59988057, 59994138,
    59999119, 60002242, 60003123, 60005125, 60006246, 60010250, 60012014, 60012050,
    60015215, 60015231, 60016112, 60020021, 60020051, 60020212, 60020988, 60022102,
    60024184, 60025193, 60027020, 60027099, 60029149, 60030174, 60031151, 60033153,
    60034012, 60035155, 60036037, 60036041, 60036053, 60036055, 60036059, 60038086,
    60040136, 60041081, 60042122, 60045117, 60047071, 60049073, 60050098, 60051091,
    60055079, 60059083, 60061021, 60061068, 60062014, 60065041, 60067068, 60067084,
    60067100, 60068065, 60070076, 60074076, 60074108, 60077037, 60084077, 60086108,
    60086140, 60094108, 60099180, 60100061, 60100073, 60100077, 60100089, 60101180,
    60102204, 60103180, 60108062, 60108989, 60112220, 60118140, 60125005, 60126046,
    60132063, 60132093, 60132111, 60132117, 60137017, 60139019, 60140062, 60140094,
    60140138, 60149180, 60156064, 60156104, 60156128, 60156136, 60159039, 60164252,
    60176220, 60180061, 60180063, 60180065, 60180111, 60180113, 60180145, 60180147,
    60180155, 60180177, 60180179, 60192032, 60196252, 60204066, 60204162, 60212193,
    60220064, 60220128, 60225025, 60228067, 60228137, 60228179, 60228193, 60252068,
    60985145, 60988992, 60989046, 60995139, 61004124, 61006126, 61007247, 61011251,
    61013015, 61013047, 61013051, 61013059, 61016216, 61016232, 61017113, 61021022,
    61021052, 61021213, 61021989, 61023103, 61025185, 61026194, 61028021, 61028100,
    61031175, 61034154, 61036156, 61038037, 61039087, 61040037, 61041137, 61042037,
    61042082, 61043123, 61044037, 61046037, 61046118, 61048037, 61050037, 61050074,
    61051099, 61052037, 61052092, 61054005, 61054021, 61054037, 61054053, 61056037,
    61056053, 61057989, 61058021, 61058037, 61058053, 61060037, 61060053, 61062022,
    61062038, 61062054, 61063015, 61063992, 61064056, 61065033, 61066069, 61068028,
    61068060, 61068069, 61069062, 61071023, 61072048, 61074050, 61074085, 61074101,
    61074995, 61075077, 61076004, 61078085, 61078999, 61082085, 61082101, 61082133,
    61085062, 61087109, 61087141, 61088048, 61090101, 61094054, 61095015, 61095109,
    61098058, 61098101, 61098181, 61100028, 61100181, 61101062, 61101064, 61102181,
    61104181, 61109063, 61109990, 61111992, 61113221, 61119141, 61126006, 61127047,
    61133064, 61133112, 61138018, 61138995, 61140020, 61141063, 61141095, 61141139,
    61148181, 61150181, 61157065, 61157105, 61157129, 61157137, 61160040, 61162042,
    61180229, 61181062, 61181064, 61181066, 61181068, 61181112, 61181146, 61181178,
    61193033, 61197253, 61205067, 61205127, 61205163, 61205175, 61221065, 61221129,
    61221177, 61221217, 61226026, 61229068, 61229138, 61229194, 61253069, 61253213,
    61985153, 61986146, 61989993, 61990047, 61990059, 61996140, 62001121, 62004244,
    62005125, 62007127, 62008248, 62012252, 62014016, 62014052, 62017217, 62017233,
    62018114, 62022023, 62022053, 62022214, 62022990, 62024104, 62026186, 62027195,
    62029022, 62029101, 62032176, 62033153, 62035155, 62036014, 62037157, 62038039,
    62038043, 62038055, 62038057, 62038061, 62040088, 62042138, 62043083, 62044124,
    62047119, 62051075, 62052100, 62053093, 62055079, 62057081, 62061181, 62063023,
    62063070, 62064016, 62070065, 62070069, 62075102, 62078076, 62083134, 62086073,
    62086077, 62086079, 62086081, 62088142, 62090158, 62091102, 62099182, 62101182,
    62102063, 62102065, 62102079, 62102081, 62102101, 62103182, 62105182, 62110064,
    62110084, 62110096, 62110100, 62110991, 62114158, 62114222, 62120142, 62127007,
    62128048, 62134065, 62134113, 62139019, 62140206, 62142064, 62142096, 62149182,
    62151182, 62158130, 62158138, 62161041, 62164206, 62181230, 62182063, 62182065,
    62182067, 62182069, 62182113, 62182147, 62182179, 62194034, 62198254, 62206068,
    62206128, 62206176, 62222066, 62222130, 62222178, 62222218, 62227027, 62230069,
    62230139, 62230195, 62254070, 62254214, 62986154, 62987147, 62990994, 62991048,
    62997141, 63006126, 63008128, 63009249, 63013253, 63015017, 63015049, 63015053,
    63015061, 63018218, 63018234, 63019115, 63023024, 63023054, 63023215, 63023991,
    63025105, 63027187, 63028196, 63030023, 63030102, 63033177, 63036156, 63038158,
    63040039, 63041089, 63042039, 63043139, 63044039, 63044084, 63045125, 63046039,
    63048039, 63048120, 63050039, 63052039, 63053101, 63054039, 63054094, 63056007,
    63056023, 63056039, 63056055, 63058039, 63058055, 63058082, 63059991, 63060023,
    63060039, 63060055, 63062039, 63062055, 63064024, 63064040, 63064056, 63064985,
    63065017, 63065049, 63065994, 63068044, 63068060, 63069053, 63070062, 63070071,
    63070087, 63070103, 63071064, 63071068, 63072032, 63073025, 63076052, 63076997,
    63078006, 63079065, 63079069, 63079073, 63079077, 63080040, 63081001, 63084060,
    63087064, 63087080, 63089041, 63092052, 63096056, 63097017, 63100060, 63102030,
    63102135, 63102183, 63103064, 63103076, 63103080, 63103092, 63104183, 63106183,
    63111065, 63111085, 63111097, 63111101, 63111992, 63113994, 63114135, 63115223,
    63128008, 63129049, 63135066, 63135096, 63135120, 63140020, 63140997, 63141207,
    63142022, 63143065, 63143069, 63143089, 63143097, 63143121, 63148183, 63150183,
    63152183, 63153986, 63159067, 63159131, 63159139, 63162042, 63164044, 63165207,
    63182231, 63183064, 63183066, 63183068, 63183114, 63183116, 63195035, 63199255,
    63207069, 63207129, 63207177, 63223067, 63223131, 63223179, 63223219, 63228028,
    63231070, 63255071, 63255215, 63987155, 63988148, 63991995, 63992049, 63992061,
    63998142, 64003123, 64006246, 64007127, 64009129, 64010250, 64014254, 64016018,
    64016054, 64019219, 64019235, 64020116, 64024025, 64024055, 64024216, 64024992,
    64026106, 64028188, 64029197, 64031024, 64031103, 64033153, 64034178, 64035155,
    64037157, 64038016, 64039159, 64040041, 64040045, 64040057, 64040059, 64040063,
    64042090, 64044140, 64045085, 64046126, 64049121, 64051075, 64053077, 64054102,
    64055095, 64059083, 64063087, 64063183, 64065025, 64065041, 64065057, 64065986,
    64066080, 64069045, 64071072, 64071088, 64071104, 64072065, 64072069, 64074080,
    64078080, 64078112, 64078144, 64081041, 64088065, 64088081, 64090112, 64090144,
    64098112, 64103136, 64103184, 64104065, 64104077, 64104081, 64104093, 64105184,
    64106144, 64106208, 64107184, 64112993, 64115136, 64116224, 64122144, 64129009,
    64130050, 64132160, 64136067, 64136097, 64136121, 64141021, 64142208, 64144066,
    64148224, 64149184, 64151184, 64153184, 64160068, 64163043, 64166208, 64180224,
    64183232, 64184065, 64184067, 64184069, 64184115, 64184117, 64196036, 64208070,
    64208130, 64208178, 64224068, 64229029, 64232071, 64984987, 64985047, 64988156,
    64989149, 64992996, 64993050, 64998985, 64999143, 65003243, 65004124, 65006126,
    65007247, 65008128, 65010130, 65011251, 65015255, 65017019, 65017051, 65017055,
    65017063, 65020220, 65020236, 65021117, 65025026, 65025056, 65025217, 65025993,
    65027107, 65029189, 65030198, 65032025, 65032104, 65034154, 65035179, 65036156,
    65038158, 65039087, 65040160, 65041042, 65041060, 65041064, 65042041, 65043091,
    65044041, 65045141, 65046041, 65046086, 65047127, 65048041, 65050041, 65050122,
    65051099, 65052041, 65052076, 65054078, 65054094, 65055103, 65056096, 65058009,
    65058025, 65058057, 65058066, 65058082, 65060057, 65060084, 65061993, 65062025,
    65062070, 65063111, 65064088, 65064184, 65066073, 65067081, 65070073, 65070089,
    65070105, 65072073, 65072089, 65072105, 65075081, 65078089, 65078105, 65079081,
    65079113, 65079145, 65082089, 65086089, 65086105, 65086137, 65086185, 65091113,
    65091145, 65094105, 65099113, 65102105, 65102185, 65104137, 65104185, 65106185,
    65107145, 65107209, 65108185, 65113994, 65114233, 65116137, 65117225, 65123145,
    65133161, 65137068, 65142022, 65143209, 65145067, 65148185, 65149225, 65150185,
    65152185, 65154185, 65156233, 65161069, 65164044, 65167209, 65181225, 65184233,
    65185066, 65185068, 65185116, 65197037, 65209071, 65209131, 65209179, 65225069,
    65230030, 65233072, 65985988, 65986048, 65989157, 65990150, 65993997, 65994051,
    65994063, 65999986, 66000144, 66009129, 66011131, 66012252, 66018020, 66020018,
    66021221, 66021237, 66022118, 66026027, 66026057, 66026218, 66026994, 66027026,
    66028018, 66028108, 66029026, 66030190, 66031010, 66031026, 66031199, 66032018,
    66033105, 66036018, 66036180, 66038034, 66039159, 66040018, 66041161, 66042043,
    66042061, 66046034, 66046142, 66047087, 66048018, 66048128, 66051123, 66051986,
    66052018, 66052050, 66053026, 66054034, 66056018, 66056050, 66057026, 66059026,
    66059042, 66059986, 66060018, 66060050, 66061026, 66062034, 66063026, 66063042,
    66063058, 66064018, 66064050, 66065026, 66065042, 66065058, 66067027, 66067043,
    66067059, 66067988, 66068020, 66068052, 66068997, 66069029, 66069045, 66069061,
    66071047, 66071063, 66072056, 66073017, 66073033, 66073049, 66073065, 66074067,
    66074069, 66074071, 66074073, 66075035, 66076028, 66076060, 66077053, 66079055,
    66080000, 66080064, 66081009, 66081041, 66082068, 66082072, 66082076, 66082080,
    66083043, 66084004, 66085990, 66087063, 66088040, 66089049, 66089065, 66090067,
    66090069, 66090073, 66090077, 66090081, 66090083, 66090085, 66092044, 66092146,
    66093053, 66094062, 66095055, 66099059, 66100020, 66103063, 66103186, 66105033,
    66105065, 66105186, 66106067, 66106069, 66106079, 66106081, 66106083, 66106085,
    66106095, 66106097, 66106105, 66107186, 66108060, 66109186, 66114068, 66114088,
    66114100, 66114104, 66114995, 66116997, 66117138, 66118022, 66118162, 66118226,
    66120040, 66124044, 66124146, 66131011, 66132052, 66134162, 66138069, 66140060,
    66140146, 66143023, 66144000, 66145025, 66146068, 66146072, 66146100, 66147027,
    66149186, 66151186, 66153186, 66155186, 66156989, 66157234, 66162070, 66165045,
    66167047, 66174014, 66182226, 66185234, 66186067, 66186069, 66186071, 66186073,
    66186117, 66186161, 66186163, 66198038, 66201001, 66210072, 66210168, 66226070,
    66226134, 66231031, 66234073, 66986989, 66987049, 66990158, 66991151, 66994998,
    66995052, 67000987, 67001145, 67010130, 67012132, 67013253, 67019021, 67019053,
    67019057, 67022222, 67022238, 67023119, 67027028, 67027058, 67027219, 67027995,
    67029109, 67031191, 67032200, 67034027, 67034106, 67037181, 67040160, 67042162,
    67043066, 67044043, 67045093, 67046043, 67047143, 67048043, 67048088, 67049129,
    67050043, 67052043, 67052124, 67054043, 67056043, 67057105, 67058043, 67058098,
    67060011, 67060027, 67060043, 67060059, 67062043, 67062059, 67062086, 67063995,
    67064027, 67064043, 67064059, 67064987, 67065019, 67065051, 67066090, 67068028,
    67068044, 67068060, 67068989, 67069021, 67069053, 67069998, 67072048, 67072064,
    67073057, 67074075, 67074091, 67074107, 67075068, 67075072, 67076036, 67077029,
    67080056, 67081001, 67081065, 67082010, 67083069, 67083073, 67083077, 67083081,
    67084044, 67085005, 67088064, 67091068, 67091084, 67093045, 67093147, 67096056,
    67100060, 67101021, 67102187, 67104064, 67104187, 67106034, 67106139, 67106187,
    67107068, 67107080, 67107084, 67107096, 67108187, 67110187, 67115069, 67115089,
    67115101, 67115105, 67115996, 67117998, 67118139, 67119163, 67119227, 67125147,
    67132187, 67133053, 67135163, 67139070, 67141147, 67144024, 67145001, 67146026,
    67147069, 67147073, 67147101, 67148187, 67150187, 67152187, 67154187, 67156187,
    67157990, 67158235, 67163071, 67166046, 67168048, 67183227, 67186235, 67187068,
    67187070, 67187072, 67187162, 67199039, 67211073, 67211169, 67224985, 67227071,
    67227135, 67232032, 67235074, 67987990, 67988050, 67991159, 67992152, 67995999,
    67996053, 68001988, 68002146, 68007127, 68010250, 68011131, 68013133, 68014254,
    68020022, 68020058, 68020066, 68023223, 68023239, 68024120, 68028029, 68028059,
    68028220, 68028996, 68030110, 68032192, 68033201, 68035107, 68037157, 68038182,
    68039159, 68041161, 68042020, 68043163, 68044045, 68044049, 68044061, 68044063,
    68044067, 68046094, 68048144, 68049089, 68050130, 68053125, 68053988, 68055079,
    68057081, 68058106, 68059099, 68061988, 68063087, 68064996, 68065028, 68065044,
    68065060, 68066114, 68067091, 68069029, 68069045, 68069061, 68069990, 68070084,
    68073049, 68073065, 68075076, 68075092, 68075108, 68076069, 68076073, 68078084,
    68082084, 68082116, 68085045, 68089065, 68092069, 68092085, 68094116, 68094148,
    68102116, 68105065, 68107188, 68108069, 68108081, 68108085, 68108097, 68109188,
    68110212, 68111188, 68116997, 68120228, 68126148, 68133188, 68134054, 68140071,
    68140101, 68140119, 68140125, 68140131, 68145025, 68147027, 68148070, 68148102,
    68148146, 68157188, 68164072, 68164112, 68164136, 68164144, 68167047, 68184228,
    68188069, 68188071, 68188073, 68188119, 68188121, 68188153, 68188155, 68188163,
    68188185, 68188187, 68200040, 68212074, 68212170, 68220201, 68228072, 68228136,
    68233033, 68236075, 68236145, 68236187, 68236201, 68988991, 68989051, 68992160,
    68993153, 68997000, 68997054, 68997066, 69002989, 69003147, 69007247, 69008128,
    69010130, 69011251, 69012132, 69014134, 69015255, 69021023, 69021055, 69021059,
    69021067, 69024224, 69024240, 69025121, 69029030, 69029060, 69029066, 69029221,
    69029997, 69031111, 69033193, 69034202, 69036029, 69036108, 69038158, 69039183,
    69040160, 69042162, 69043091, 69044164, 69045046, 69045064, 69045068, 69046045,
    69047095, 69048045, 69049145, 69050045, 69050090, 69051131, 69052045, 69054045,
    69054126, 69055103, 69056045, 69056080, 69058082, 69058098, 69059107, 69060100,
    69061066, 69062013, 69062029, 69062061, 69062070, 69062086, 69064061, 69064088,
    69066074, 69066106, 69067115, 69068092, 69068188, 69070077, 69071085, 69074077,
    69074093, 69074109, 69076077, 69076093, 69076109, 69079085, 69082093, 69082109,
    69083085, 69083117, 69086093, 69090093, 69090109, 69090141, 69090189, 69095117,
    69095149, 69098109, 69103117, 69106109, 69106189, 69108189, 69110189, 69111213,
    69112189, 69117998, 69121229, 69127149, 69132189, 69134189, 69141072, 69141120,
    69141126, 69146026, 69149071, 69149103, 69149147, 69156189, 69158189, 69165073,
    69165113, 69165137, 69165145, 69168048, 69185229, 69188237, 69189070, 69189072,
    69189120, 69189154, 69189186, 69201041, 69213075, 69213171, 69221202, 69229073,
    69229137, 69234034, 69237076, 69237146, 69237202, 69989992, 69990052, 69993161,
    69994154, 69998001, 69998055, 69998067, 70003990, 70004148, 70013133, 70015135,
    70022024, 70024022, 70025225, 70025241, 70026122, 70030031, 70030061, 70030222,
    70030998, 70031030, 70032022, 70032112, 70034194, 70035203, 70036022, 70037109,
    70040022, 70040184, 70042038, 70043163, 70044022, 70045165, 70046047, 70050038,
    70050146, 70051091, 70052022, 70052132, 70055127, 70055990, 70056022, 70056054,
    70057030, 70058038, 70060022, 70060054, 70061030, 70063030, 70063046, 70063990,
    70064022, 70064054, 70065030, 70065046, 70065062, 70067030, 70067046, 70067062,
    70068022, 70068054, 70069030, 70069046, 70069062, 70071031, 70071047, 70071063,
    70071992, 70072024, 70072056, 70073001, 70073033, 70073049, 70073065, 70075051,
    70075067, 70076060, 70077021, 70077037, 70077053, 70077069, 70078071, 70078073,
    70078075, 70078077, 70079039, 70080032, 70080064, 70081057, 70083059, 70084004,
    70084068, 70085013, 70085045, 70086072, 70086076, 70086080, 70086084, 70087047,
    70088008, 70089065, 70089994, 70091067, 70092044, 70093053, 70093069, 70094071,
    70094073, 70094077, 70094081, 70094085, 70094087, 70094089, 70096048, 70097057,
    70099059, 70103063, 70104024, 70105065, 70107067, 70109037, 70109069, 70110071,
    70110073, 70110083, 70110085, 70110087, 70110089, 70110099, 70110101, 70110109,
    70111190, 70112064, 70113190, 70118072, 70118092, 70118104, 70118108, 70118999,
    70121001, 70122026, 70122230, 70124044, 70128048, 70135015, 70136056, 70137017,
    70142073, 70142103, 70142121, 70142127, 70144064, 70147027, 70148004, 70148214,
    70149029, 70150072, 70150076, 70150096, 70150104, 70150128, 70157190, 70159190,
    70160993, 70166074, 70166138, 70166146, 70169049, 70171051, 70172214, 70178018,
    70189238, 70190071, 70190073, 70190075, 70190077, 70190109, 70190121, 70190123,
    70190125, 70190155, 70190187, 70202042, 70205005, 70214076, 70214136, 70214184,
    70227988, 70230074, 70230138, 70230186, 70230226, 70235035, 70238077, 70238147,
    70238203, 70990993, 70991053, 70994162, 70995155, 70999002, 70999056, 71004991,
    71005149, 71012132, 71014134, 71016136, 71023025, 71023057, 71023061, 71026226,
    71026242, 71027123, 71031032, 71031062, 71031223, 71031999, 71033113, 71035195,
    71036204, 71038031, 71038110, 71041185, 71044164, 71046166, 71047066, 71047070,
    71048047, 71049097, 71050047, 71051147, 71052047, 71052092, 71053133, 71054047,
    71056047, 71056128, 71058047, 71060047, 71061109, 71062047, 71062102, 71064015,
    71064031, 71064047, 71064063, 71064991, 71065023, 71065055, 71066090, 71067999,
    71068031, 71068047, 71068063, 71068991, 71069023, 71069055, 71070094, 71070190,
    71072032, 71072048, 71072064, 71072993, 71073025, 71073057, 71074002, 71076052,
    71076068, 71077061, 71078079, 71078095, 71078111, 71079072, 71079076, 71080040,
    71081033, 71081065, 71084060, 71085005, 71085069, 71086014, 71087073, 71087077,
    71087081, 71087085, 71088048, 71089009, 71092068, 71095072, 71095088, 71097049,
    71100060, 71104064, 71105025, 71108068, 71110038, 71110143, 71110191, 71111072,
    71111084, 71111088, 71111100, 71112191, 71113065, 71114191, 71119073, 71119093,
    71119105, 71119109, 71120000, 71122002, 71122143, 71123231, 71136016, 71137057,
    71143074, 71143104, 71143128, 71145065, 71148028, 71149005, 71149215, 71150030,
    71151073, 71151077, 71151097, 71151105, 71151129, 71156191, 71158191, 71160191,
    71161994, 71167075, 71167139, 71167147, 71170050, 71172052, 71173215, 71190239,
    71191072, 71191074, 71191076, 71191122, 71191124, 71203043, 71215077, 71215137,
    71215185, 71224985, 71228989, 71231075, 71231139, 71231187, 71231227, 71236036,
    71239078, 71991994, 71992054, 71995163, 71996156, 72000003, 72000057, 72005992,
    72006150, 72013133, 72014254, 72015135, 72017137, 72024026, 72024062, 72024070,
    72027227, 72027243, 72028124, 72032033, 72032063, 72032224, 72034114, 72036196,
    72037205, 72039111, 72041161, 72042186, 72043163, 72045165, 72046024, 72047167,
    72048049, 72048053, 72048067, 72048071, 72050098, 72052148, 72053093, 72054134,
    72057129, 72057992, 72059083, 72061085, 72062110, 72063103, 72065016, 72065032,
    72065048, 72065064, 72067091, 72069000, 72069032, 72069048, 72069064, 72070118,
    72071095, 72071191, 72073033, 72073049, 72073065, 72073994, 72074088, 72077053,
    72077069, 72079080, 72079096, 72079112, 72080073, 72080077, 72082088, 72086088,
    72086120, 72086152, 72089049, 72093069, 72096073, 72096089, 72098120, 72098152,
    72105065, 72106120, 72109069, 72111144, 72111192, 72112073, 72112085, 72112089,
    72112101, 72113192, 72114152, 72114216, 72115192, 72121001, 72123144, 72124232,
    72137017, 72138058, 72140168, 72144075, 72144105, 72144129, 72149029, 72150216,
    72152074, 72152130, 72156232, 72157192, 72159192, 72161192, 72168076, 72171051,
    72174216, 72188232, 72191240, 72192073, 72192075, 72192077, 72192123, 72192125,
    72204044, 72216078, 72216138, 72216186, 72225986, 72232076, 72237037, 72240079,
    72985177, 72992995, 72993055, 72996164, 72997157, 73001004, 73001058, 73001070,
    73006993, 73007151, 73011251, 73012132, 73014134, 73015255, 73016136, 73017985,
    73018138, 73025027, 73025059, 73025063, 73025071, 73028228, 73028244, 73029125,
    73033034, 73033064, 73033070, 73033225, 73034001, 73034033, 73035115, 73036033,
    73037197, 73038033, 73038206, 73040033, 73040112, 73042033, 73042162, 73043187,
    73044164, 73046033, 73046166, 73047095, 73048168, 73049050, 73049066, 73049068,
    73049072, 73050049, 73051099, 73052049, 73053149, 73054049, 73054094, 73055135,
    73056049, 73058049, 73058130, 73059107, 73060049, 73060084, 73062086, 73062102,
    73063111, 73064104, 73065066, 73065070, 73066074, 73066090, 73068092, 73070078,
    73070110, 73070142, 73071119, 73072096, 73072192, 73074081, 73075089, 73078081,
    73078097, 73078113, 73080081, 73080097, 73080113, 73083089, 73086097, 73086113,
    73087089, 73087121, 73087153, 73090097, 73094097, 73094113, 73094145, 73094193,
    73099121, 73099153, 73102113, 73107121, 73110113, 73110193, 73112145, 73112193,
    73114193, 73115153, 73115217, 73116193, 73122002, 73122241, 73124145, 73125233,
    73141169, 73145076, 73145130, 73150030, 73151217, 73153075, 73153131, 73156193,
    73157233, 73158193, 73160193, 73162193, 73164241, 73169077, 73172052, 73175217,
    73189233, 73192241, 73193074, 73193076, 73193124, 73205045, 73217079, 73217139,
    73217187, 73226987, 73233077, 73238038, 73241080, 73986178, 73993996, 73994056,
    73997165, 73998158, 74002005, 74002059, 74002071, 74007994, 74008152, 74017137,
    74018986, 74019139, 74026028, 74028026, 74029229, 74029245, 74030126, 74034035,
    74034226, 74036026, 74036116, 74038198, 74039207, 74040026, 74041113, 74044026,
    74044188, 74046042, 74047167, 74048026, 74049169, 74050051, 74054042, 74054150,
    74055095, 74056026, 74056136, 74059131, 74059994, 74060026, 74060058, 74061034,
    74062042, 74064026, 74064058, 74065034, 74065050, 74067034, 74067050, 74067066,
    74067994, 74068026, 74068058, 74069034, 74069050, 74069066, 74071034, 74071050,
    74071066, 74072026, 74072058, 74073034, 74073050, 74073066, 74075035, 74075051,
    74075067, 74075996, 74076028, 74076060, 74077005, 74077037, 74077053, 74077069,
    74079055, 74079071, 74080064, 74081025, 74081041, 74081057, 74081073, 74082075,
    74082077, 74082079, 74082081, 74083043, 74084036, 74084068, 74085061, 74087063,
    74088008, 74088072, 74089017, 74089049, 74089065, 74090076, 74090080, 74090084,
    74090088, 74091051, 74092012, 74093069, 74093998, 74095071, 74096048, 74097057,
    74097073, 74098075, 74098077, 74098081, 74098085, 74098089, 74098091, 74098093,
    74100052, 74100154, 74101061, 74103063, 74105065, 74107067, 74108028, 74109069,
    74111071, 74111194, 74113041, 74113073, 74113194, 74114075, 74114077, 74114087,
    74114089, 74114091, 74114093, 74114103, 74114105, 74114113, 74115194, 74116068,
    74117194, 74122076, 74122096, 74122108, 74122112, 74123003, 74125005, 74125146,
    74126030, 74126170, 74126234, 74128048, 74132154, 74137065, 74139019, 74140060,
    74142170, 74146077, 74146131, 74148068, 74148154, 74151031, 74152008, 74153033,
    74154076, 74154080, 74154108, 74155035, 74157194, 74159194, 74161194, 74163194,
    74164997, 74165242, 74170078, 74173053, 74175055, 74182022, 74185065, 74190234,
    74193242, 74194075, 74194077, 74194079, 74194081, 74194125, 74194169, 74194171,
    74206046, 74209009, 74218080, 74218176, 74227988, 74231992, 74234078, 74234142,
    74239039, 74242081, 74987179, 74994997, 74995057, 74998166, 74999159, 75003006,
    75003060, 75008995, 75009153, 75018138, 75019987, 75020140, 75027029, 75027061,
    75030230, 75030246, 75031127, 75035036, 75035066, 75035227, 75036003, 75036035,
    75037117, 75038035, 75039199, 75040035, 75040208, 75042035, 75042114, 75044035,
    75045189, 75046035, 75048035, 75048168, 75050035, 75050170, 75051070, 75051074,
    75052035, 75052051, 75053101, 75054035, 75054051, 75055151, 75056035, 75056051,
    75056096, 75057137, 75058051, 75060035, 75060051, 75060132, 75062035, 75062051,
    75064035, 75064051, 75064995, 75065027, 75065059, 75066106, 75068019, 75068035,
    75068051, 75068067, 75068995, 75069027, 75069059, 75070094, 75072003, 75072035,
    75072051, 75072067, 75072995, 75073027, 75073059, 75074098, 75076036, 75076052,
    75076068, 75076997, 75077029, 75077061, 75078006, 75080056, 75080072, 75081065,
    75082083, 75082099, 75082115, 75083076, 75083080, 75084044, 75085037, 75085069,
    75088064, 75089009, 75089073, 75090018, 75091077, 75091081, 75091085, 75091089,
    75092052, 75093013, 75096072, 75099076, 75099092, 75101053, 75101155, 75104064,
    75108068, 75109029, 75110195, 75112072, 75112195, 75114042, 75114147, 75114195,
    75115076, 75115088, 75115092, 75115104, 75116195, 75117069, 75118195, 75123077,
    75123097, 75123109, 75123113, 75124004, 75126006, 75126147, 75127171, 75127235,
    75133155, 75140195, 75141061, 75143171, 75147078, 75149069, 75149155, 75152032,
    75153009, 75154034, 75155077, 75155081, 75155109, 75156195, 75158195, 75160195,
    75162195, 75164195, 75165998, 75166243, 75171079, 75174054, 75176056, 75191235,
    75194243, 75195076, 75195078, 75195080, 75195170, 75207047, 75219081, 75219177,
    75228989, 75232993, 75235079, 75235143, 75240040, 75243082, 75988180, 75995998,
    75996058, 75999167, 76000160, 76004007, 76004061, 76009996, 76010154, 76015135,
    76019139, 76020988, 76021141, 76028030, 76028066, 76028074, 76031231, 76031247,
    76032128, 76036037, 76036067, 76036228, 76038118, 76040200, 76041209, 76043115,
    76045165, 76046190, 76047167, 76049169, 76050028, 76051171, 76052053, 76052057,
    76052071, 76052075, 76054102, 76056152, 76057097, 76058138, 76061133, 76061996,
    76063087, 76065036, 76065052, 76066114, 76067107, 76069020, 76069036, 76069052,
    76069068, 76071095, 76073004, 76073036, 76073052, 76073068, 76074122, 76075099,
    76077037, 76077053, 76077069, 76077998, 76078092, 76081057, 76081073, 76083084,
    76083100, 76083116, 76084077, 76084081, 76086092, 76089065, 76090092, 76090124,
    76093053, 76097073, 76100077, 76100093, 76102124, 76102156, 76105065, 76109069,
    76110124, 76113073, 76115196, 76116077, 76116089, 76116093, 76116105, 76117196,
    76118220, 76119196, 76125005, 76128236, 76132125, 76134156, 76141196, 76142062,
    76148079, 76148109, 76148127, 76148133, 76148139, 76153033, 76155035, 76156078,
    76156110, 76156154, 76165196, 76172080, 76172120, 76172144, 76172152, 76175055,
    76192236, 76196077, 76196079, 76196081, 76196127, 76196129, 76196131, 76196161,
    76196163, 76196171, 76196193, 76196195, 76208048, 76220082, 76220178, 76228209,
    76229990, 76236080, 76236144, 76241041, 76244083, 76244153, 76244195, 76244209,
    76989181, 76996999, 76997059, 77000168, 77001161, 77005008, 77005062, 77005074,
    77010997, 77011155, 77012132, 77015255, 77016136, 77018138, 77020140, 77021989,
    77022142, 77029031, 77029063, 77029067, 77029075, 77032232, 77032248, 77033129,
    77037038, 77037066, 77037068, 77037074, 77037229, 77038005, 77038037, 77039119,
    77040037, 77041201, 77042037, 77042210, 77044037, 77044116, 77046037, 77046166,
    77047191, 77048168, 77050037, 77050170, 77051099, 77052172, 77053054, 77053070,
    77053072, 77053076, 77054053, 77055103, 77056053, 77057153, 77058053, 77058098,
    77059139, 77060053, 77062053, 77062134, 77063111, 77064053, 77064088, 77065045,
    77066090, 77066106, 77067115, 77068108, 77069070, 77069074, 77070078, 77070094,
    77072096, 77074082, 77074114, 77075123, 77076100, 77076196, 77078085, 77079093,
    77080985, 77082085, 77082101, 77082117, 77084085, 77084101, 77084117, 77087093,
    77090101, 77090117, 77091093, 77091125, 77094101, 77098101, 77098117, 77098149,
    77098197, 77103125, 77103157, 77106117, 77111125, 77114117, 77114197, 77116197,
    77118197, 77119221, 77120197, 77126006, 77129237, 77135157, 77140197, 77142197,
    77149080, 77149128, 77149134, 77154034, 77157079, 77157111, 77157155, 77164197,
    77166197, 77173081, 77173121, 77173145, 77173153, 77176056, 77193237, 77196245,
    77197078, 77197080, 77197128, 77197130, 77197162, 77197194, 77209049, 77221083,
    77221179, 77229210, 77230991, 77237081, 77237145, 77242042, 77245084, 77245154,
    77245210, 77990182, 77998000, 77998060, 78001169, 78002162, 78006009, 78006063,
    78006075, 78011998, 78012156, 78021141, 78022990, 78023143, 78030032, 78032030,
    78033233, 78033249, 78034130, 78038039, 78038230, 78040030, 78040120, 78042202,
    78043211, 78044030, 78045117, 78048030, 78048192, 78050046, 78051171, 78052030,
    78053173, 78054055, 78058046, 78058154, 78059099, 78060030, 78060140, 78063135,
    78063998, 78064030, 78064062, 78065038, 78065054, 78068030, 78068062, 78069038,
    78069054, 78071038, 78071054, 78071070, 78071998, 78072030, 78072062, 78073038,
    78073054, 78073070, 78075038, 78075054, 78075070, 78076030, 78076062, 78077038,
    78077054, 78077070, 78079039, 78079055, 78079071, 78080000, 78080032, 78080064,
    78081009, 78081041, 78081057, 78081073, 78081986, 78083059, 78083075, 78084068,
    78085029, 78085045, 78085061, 78085077, 78086079, 78086081, 78086083, 78086085,
    78087047, 78088040, 78088072, 78089065, 78091067, 78092012, 78092076, 78093021,
    78093053, 78093069, 78094080, 78094084, 78094088, 78094092, 78095055, 78096016,
    78097073, 78098002, 78099075, 78100052, 78101061, 78101077, 78102079, 78102081,
    78102085, 78102089, 78102093, 78102095, 78102097, 78104056, 78104985, 78105065,
    78107067, 78109069, 78111071, 78112032, 78113073, 78115075, 78117045, 78117077,
    78118079, 78118081, 78118091, 78118093, 78118095, 78118097, 78118107, 78118109,
    78118117, 78119198, 78120072, 78121198, 78126080, 78126100, 78126112, 78126116,
    78127007, 78129009, 78130034, 78131011, 78136056, 78143023, 78144064, 78145025,
    78145986, 78150081, 78150111, 78150129, 78150135, 78152072, 78155035, 78156012,
    78156222, 78157037, 78158080, 78158084, 78158104, 78158112, 78158136, 78165198,
    78167198, 78169001, 78174082, 78174146, 78174154, 78177057, 78179059, 78180222,
    78186026, 78189069, 78197246, 78198079, 78198081, 78198083, 78198085, 78198117,
    78198129, 78198131, 78198163, 78198195, 78210050, 78213013, 78222084, 78222144,
    78222192, 78231992, 78235996, 78238082, 78238130, 78238146, 78238194, 78238234,
    78243043, 78246085, 78246155, 78246211, 78991183, 78999001, 78999061, 79002170,
    79003163, 79007010, 79007064, 79012999, 79013157, 79020140, 79022142, 79023991,
    79024144, 79031033, 79034234, 79034250, 79035131, 79039040, 79039070, 79039231,
    79040007, 79040039, 79041121, 79042039, 79043203, 79044039, 79044212, 79046039,
    79046118, 79048039, 79049193, 79050039, 79052039, 79052172, 79054039, 79054174,
    79055074, 79055078, 79056039, 79056055, 79057105, 79058039, 79058055, 79059155,
    79060039, 79060055, 79060100, 79061141, 79062055, 79064039, 79064055, 79064136,
    79064999, 79065031, 79065063, 79066090, 79068039, 79068055, 79068999, 79069031,
    79069063, 79070110, 79072023, 79072039, 79072055, 79072071, 79072999, 79073031,
    79073063, 79074098, 79076007, 79076039, 79076055, 79076071, 79076999, 79077031,
    79077063, 79078102, 79078198, 79080040, 79080056, 79080072, 79081001, 79081033,
    79081065, 79082010, 79082987, 79084060, 79084076, 79085069, 79086087, 79086103,
    79086119, 79087080, 79087084, 79088048, 79089041, 79089073, 79092068, 79093013,
    79093077, 79094022, 79095081, 79095085, 79095089, 79095093, 79096056, 79097017,
    79100076, 79103080, 79103096, 79105057, 79105986, 79108068, 79112072, 79116076,
    79118046, 79118151, 79118199, 79119080, 79119092, 79119096, 79119108, 79120199,
    79121073, 79122199, 79127081, 79127101, 79127113, 79127117, 79128008, 79130010,
    79131035, 79144024, 79145065, 79151082, 79151112, 79151130, 79151136, 79153073,
    79156036, 79157013, 79157223, 79158038, 79159081, 79159085, 79159105, 79159113,
    79159137, 79164199, 79166199, 79168199, 79170002, 79175083, 79175147, 79175155,
    79178058, 79180060, 79181223, 79198247, 79199080, 79199082, 79199084, 79199130,
    79211051, 79223085, 79223145, 79223193, 79232993, 79236997, 79239083, 79239131,
    79239147, 79239195, 79239235, 79244044, 79247086, 79985185, 79992184, 80000002,
    80000062, 80003171, 80004164, 80008011, 80008065, 80014000, 80014158, 80021141,
    80023143, 80024992, 80025145, 80032034, 80032066, 80032070, 80032078, 80035235,
    80035251, 80036132, 80040041, 80040071, 80040232, 80042122, 80044204, 80045213,
    80047119, 80049169, 80050194, 80051171, 80053173, 80054032, 80055175, 80056057,
    80056061, 80056075, 80056079, 80058106, 80060156, 80061101, 80062142, 80065040,
    80065056, 80065137, 80066114, 80067091, 80069040, 80069056, 80070118, 80071111,
    80073024, 80073040, 80073056, 80073072, 80075099, 80077008, 80077040, 80077056,
    80077072, 80078126, 80079103, 80079199, 80081041, 80081057, 80081073, 80082002,
    80082096, 80083988, 80085061, 80085077, 80087088, 80087104, 80087120, 80088081,
    80088085, 80090096, 80093069, 80094096, 80094128, 80094160, 80097057, 80101077,
    80104081, 80104097, 80104985, 80106128, 80106160, 80109069, 80113073, 80114128,
    80117077, 80119152, 80119200, 80120081, 80120093, 80120097, 80120109, 80121200,
    80122160, 80122224, 80123200, 80129009, 80131011, 80132176, 80132240, 80145025,
    80148176, 80152083, 80152113, 80152131, 80152137, 80157037, 80158224, 80160082,
    80160138, 80164240, 80165200, 80167200, 80169200, 80176084, 80179059, 80182224,
    80196240, 80199248, 80200081, 80200083, 80200085, 80200131, 80212052, 80224086,
    80224146, 80224194, 80233994, 80240084, 80245045, 80248087, 80984989, 80985061,
    80986186, 80993185, 81001003, 81001063, 81004172, 81005165, 81009012, 81009066,
    81009078, 81015001, 81015159, 81020140, 81022142, 81024144, 81025993, 81026146,
    81028985, 81033035, 81033067, 81033071, 81033079, 81036236, 81036252, 81037133,
    81041042, 81041070, 81041072, 81041078, 81041233, 81042009, 81042041, 81043123,
    81044041, 81045205, 81046041, 81046214, 81048041, 81048120, 81050041, 81050170,
    81051195, 81052172, 81054041, 81054174, 81055103, 81056176, 81057058, 81057074,
    81057076, 81057080, 81058057, 81059107, 81060057, 81061157, 81062057, 81062102,
    81063143, 81064057, 81066138, 81067115, 81068057, 81068092, 81069049, 81070094,
    81070110, 81071119, 81072112, 81073074, 81073078, 81074082, 81074098, 81076100,
    81078086, 81078118, 81078150, 81079127, 81080104, 81080200, 81082089, 81083097,
    81084989, 81086089, 81086105, 81086121, 81088089, 81088105, 81088121, 81091097,
    81094105, 81094121, 81095097, 81095129, 81095161, 81098105, 81102105, 81102121,
    81102153, 81102201, 81105986, 81107129, 81107161, 81110121, 81115129, 81118121,
    81118201, 81120153, 81120201, 81122201, 81123161, 81123225, 81124201, 81130010,
    81132153, 81133177, 81133241, 81149177, 81153084, 81153138, 81158038, 81159225,
    81161083, 81161139, 81164201, 81165241, 81166201, 81168201, 81170201, 81172249,
    81177085, 81180060, 81183225, 81197241, 81200249, 81201082, 81201084, 81213053,
    81225087, 81225147, 81225195, 81234995, 81241085, 81246046, 81249088, 81985990,
    81986062, 81986078, 81987187, 81994186, 82002004, 82002064, 82005173, 82006166,
    82010013, 82010067, 82010079, 82016002, 82016160, 82025145, 82026994, 82027147,
    82029986, 82034036, 82036034, 82037237, 82037253, 82038134, 82042043, 82042234,
    82044034, 82044124, 82046206, 82047215, 82048034, 82049121, 82052034, 82052196,
    82054050, 82055175, 82056034, 82057177, 82058059, 82062050, 82062158, 82063103,
    82064034, 82064144, 82065042, 82065058, 82067139, 82068002, 82068034, 82068066,
    82069042, 82069058, 82072034, 82072066, 82073042, 82073058, 82075042, 82075058,
    82075074, 82076002, 82076034, 82076066, 82077042, 82077058, 82077074, 82079042,
    82079058, 82079074, 82080034, 82080066, 82081042, 82081058, 82081074, 82083043,
    82083059, 82083075, 82084004, 82084036, 82084068, 82085013, 82085045, 82085061,
    82085077, 82085990, 82087063, 82087079, 82088072, 82089033, 82089049, 82089065,
    82089081, 82090083, 82090085, 82090087, 82090089, 82091051, 82092044, 82092076,
    82093069, 82095071, 82096016, 82096080, 82097025, 82097057, 82097073, 82098084,
    82098088, 82098092, 82098096, 82099059, 82100020, 82101077, 82102006, 82103079,
    82104056, 82104985, 82105065, 82105081, 82106083, 82106085, 82106089, 82106093,
    82106097, 82106099, 82106101, 82106987, 82108060, 82108162, 82108989, 82109069,
    82111071, 82113073, 82115075, 82116036, 82116130, 82117077, 82119079, 82119202,
    82121049, 82121081, 82121202, 82122083, 82122085, 82122095, 82122097, 82122099,
    82122101, 82122111, 82122113, 82122121, 82123202, 82124076, 82125202, 82130084,
    82131011, 82133013, 82133154, 82134038, 82134178, 82134242, 82136056, 82140162,
    82145073, 82147027, 82148068, 82149990, 82150178, 82154085, 82154139, 82156076,
    82156162, 82159039, 82160016, 82161041, 82162084, 82162088, 82162116, 82163043,
    82165202, 82167202, 82169202, 82171202, 82173005, 82173250, 82178086, 82181061,
    82183063, 82185065, 82190030, 82193073, 82198242, 82201250, 82202083, 82202085,
    82202087, 82202089, 82202177, 82202179, 82214054, 82217017, 82226088, 82226184,
    82235996, 82240000, 82242086, 82242150, 82247047, 82250089, 82986991, 82987063,
    82988188, 82995187, 83003005, 83003065, 83006174, 83007167, 83011014, 83011068,
    83017003, 83017161, 83026146, 83027995, 83028148, 83030987, 83035037, 83038238,
    83038254, 83039135, 83043044, 83043074, 83043235, 83044011, 83044043, 83045125,
    83046043, 83047207, 83048043, 83048216, 83050043, 83050122, 83052043, 83053197,
    83054043, 83056043, 83056176, 83057035, 83058043, 83058178, 83059078, 83059082,
    83060043, 83060059, 83061109, 83062043, 83062059, 83063159, 83064043, 83064059,
    83064104, 83065003, 83065035, 83065145, 83068043, 83068059, 83068140, 83069003,
    83069035, 83069067, 83070094, 83072043, 83072059, 83073003, 83073035, 83073067,
    83074114, 83076027, 83076043, 83076059, 83076075, 83077003, 83077035, 83077067,
    83078102, 83080011, 83080043, 83080059, 83080075, 83081003, 83081035, 83081067,
    83082106, 83084044, 83084060, 83084076, 83085005, 83085037, 83085069, 83086014,
    83086991, 83088064, 83088080, 83089073, 83090091, 83090107, 83090123, 83091084,
    83091088, 83092052, 83093045, 83093077, 83096072, 83097017, 83097081, 83098026,
    83099085, 83099089, 83099093, 83099097, 83100060, 83101021, 83104080, 83107084,
    83107100, 83107988, 83109061, 83109163, 83109990, 83112072, 83116076, 83117131,
    83118203, 83120080, 83120203, 83122050, 83122155, 83122203, 83123084, 83123096,
    83123100, 83123112, 83124203, 83125077, 83126203, 83131085, 83132012, 83132139,
    83132251, 83134014, 83134155, 83135179, 83135243, 83141163, 83148203, 83149069,
    83151179, 83155086, 83157077, 83157163, 83160040, 83161017, 83162042, 83163085,
    83163089, 83163117, 83164203, 83166203, 83168203, 83170203, 83172203, 83174006,
    83174251, 83179087, 83182062, 83184064, 83199243, 83202251, 83203084, 83203086,
    83203088, 83203178, 83215055, 83227089, 83227185, 83236997, 83241001, 83243087,
    83243151, 83248048, 83251090, 83985201, 83987992, 83988064, 83989189, 83996188,
    84004006, 84004066, 84007175, 84008168, 84012015, 84012069, 84018004, 84018162,
    84023143, 84027147, 84028996, 84029149, 84031988, 84036038, 84036070, 84036074,
    84036082, 84039239, 84039255, 84040136, 84044045, 84044075, 84044236, 84046126,
    84048208, 84049217, 84051123, 84053173, 84054198, 84055175, 84057177, 84058036,
    84059179, 84060061, 84060079, 84060083, 84062110, 84064160, 84065044, 84065060,
    84065105, 84066146, 84069044, 84069060, 84069141, 84070118, 84071095, 84073044,
    84073060, 84074122, 84075115, 84077028, 84077044, 84077060, 84077076, 84079103,
    84081012, 84081044, 84081060, 84081076, 84083107, 84085045, 84085061, 84085077,
    84086006, 84086100, 84087992, 84089065, 84089081, 84091092, 84091108, 84091124,
    84092085, 84092089, 84094100, 84097073, 84098100, 84098132, 84101061, 84104985,
    84105081, 84108085, 84108101, 84108989, 84110164, 84113073, 84117077, 84121081,
    84123204, 84124085, 84124097, 84124101, 84124113, 84125204, 84126228, 84127204,
    84132118, 84132122, 84133013, 84136244, 84142164, 84149204, 84156087, 84156117,
    84156135, 84156141, 84156147, 84161041, 84163043, 84164086, 84164118, 84164162,
    84173204, 84180088, 84180128, 84180152, 84180160, 84183063, 84185065, 84200244,
    84200985, 84204085, 84204087, 84204089, 84204135, 84204137, 84204139, 84204169,
    84204171, 84204179, 84204201, 84204203, 84216056, 84228090, 84228186, 84236217,
    84237998, 84244088, 84244152, 84249049, 84252091, 84252161, 84252203, 84252217,
    84986202, 84988993, 84989065, 84990190, 84997189, 85005007, 85005067, 85008176,
    85009169, 85013016, 85013070, 85013082, 85019005, 85019163, 85020140, 85024144,
    85026146, 85028148, 85029997, 85030150, 85032989, 85037039, 85037071, 85037075,
    85037083, 85040240, 85041137, 85045046, 85045074, 85045076, 85045082, 85045237,
    85046013, 85046045, 85047127, 85048045, 85049209, 85050045, 85050218, 85052045,
    85052124, 85054045, 85054174, 85055199, 85056176, 85058045, 85058178, 85059107,
    85060180, 85061062, 85061066, 85061078, 85061080, 85061084, 85062061, 85063111,
    85064061, 85065053, 85065161, 85066106, 85067147, 85068061, 85070142, 85071119,
    85072061, 85072096, 85073053, 85074098, 85074114, 85075123, 85076116, 85077078,
    85077082, 85078086, 85078102, 85080104, 85082090, 85082122, 85084108, 85084204,
    85086093, 85087101, 85088993, 85090093, 85090109, 85090125, 85092093, 85092109,
    85092125, 85095101, 85098109, 85098125, 85099101, 85099133, 85102109, 85106109,
    85106125, 85106157, 85106205, 85109990, 85111165, 85114125, 85122125, 85122205,
    85124205, 85126205, 85127229, 85128205, 85133119, 85133123, 85134014, 85137245,
    85143165, 85148205, 85150205, 85157088, 85157136, 85157142, 85162042, 85165087,
    85165119, 85165163, 85172205, 85174205, 85181089, 85181129, 85181153, 85181161,
    85184064, 85201245, 85204253, 85205086, 85205088, 85205136, 85205138, 85205170,
    85205202, 85217057, 85229091, 85229187, 85237218, 85238999, 85245089, 85245153,
    85250050, 85253092, 85253162, 85253218, 85987203, 85989994, 85990066, 85990082,
    85991191, 85998190, 86006008, 86006068, 86009177, 86010170, 86014017, 86014071,
    86014083, 86020006, 86020164, 86029149, 86030998, 86031151, 86033990, 86038040,
    86040038, 86041241, 86042138, 86046047, 86046238, 86048038, 86048128, 86050210,
    86051219, 86052038, 86053125, 86056038, 86056200, 86058054, 86059179, 86060038,
    86061181, 86062063, 86065014, 86065030, 86065046, 86065062, 86066162, 86067107,
    86068038, 86068148, 86069046, 86069062, 86071143, 86072006, 86072038, 86072070,
    86073046, 86073062, 86076038, 86076070, 86077046, 86077062, 86079046, 86079062,
    86079078, 86080006, 86080038, 86080070, 86081046, 86081062, 86081078, 86083046,
    86083062, 86083078, 86084038, 86084070, 86085046, 86085062, 86085078, 86087047,
    86087063, 86087079, 86088008, 86088040, 86088072, 86089017, 86089049, 86089065,
    86089081, 86089994, 86091067, 86091083, 86092076, 86093037, 86093053, 86093069,
    86093085, 86094087, 86094089, 86094091, 86094093, 86095055, 86096048, 86096080,
    86097073, 86099075, 86100020, 86100084, 86101029, 86101061, 86101077, 86102088,
    86102092, 86102096, 86102100, 86103063, 86104024, 86105065, 86105081, 86106010,
    86106987, 86107083, 86108060, 86108989, 86109069, 86109085, 86110087, 86110089,
    86110093, 86110097, 86110101, 86110103, 86110105, 86110991, 86112064, 86112993,
    86113073, 86115075, 86117077, 86119079, 86120040, 86121081, 86123083, 86125053,
    86125085, 86126087, 86126089, 86126099, 86126101, 86126103, 86126105, 86126115,
    86126117, 86126125, 86127206, 86128080, 86129206, 86134088, 86134108, 86134120,
    86134124, 86135015, 86137017, 86138042, 86139019, 86144064, 86151031, 86152072,
    86153994, 86158089, 86158119, 86158137, 86158143, 86160080, 86163043, 86164020,
    86164230, 86165045, 86166088, 86166092, 86166112, 86166120, 86166144, 86173206,
    86175206, 86177009, 86182090, 86182130, 86182154, 86182162, 86185065, 86187067,
    86188230, 86189069, 86194034, 86197077, 86202987, 86205254, 86206087, 86206089,
    86206091, 86206093, 86206125, 86206137, 86206139, 86206171, 86206203, 86218058,
    86221021, 86230092, 86230152, 86230200, 86240000, 86244004, 86246090, 86246138,
    86246154, 86246202, 86246242, 86251051, 86254093, 86254163, 86254219, 86988204,
    86990995, 86991067, 86992192, 86999191, 87007009, 87007069, 87010178, 87011171,
    87015018, 87015072, 87021007, 87021165, 87028148, 87030150, 87031999, 87032152,
    87034991, 87039041, 87042242, 87043139, 87047048, 87047078, 87047239, 87048015,
    87048047, 87049129, 87050047, 87051211, 87052047, 87052220, 87054047, 87054126,
    87056047, 87057201, 87058047, 87060047, 87060180, 87061039, 87062047, 87062182,
    87063082, 87063086, 87064047, 87064063, 87065007, 87065039, 87067163, 87068047,
    87068063, 87068108, 87069007, 87069039, 87069149, 87072047, 87072063, 87072144,
    87073007, 87073039, 87073071, 87074098, 87076047, 87076063, 87077007, 87077039,
    87077071, 87078118, 87080031, 87080047, 87080063, 87080079, 87081007, 87081039,
    87081071, 87082106, 87084015, 87084047, 87084063, 87084079, 87085007, 87085039,
    87085071, 87086110, 87086206, 87088048, 87088064, 87088080, 87089009, 87089041,
    87089073, 87090018, 87090995, 87092068, 87092084, 87093077, 87094095, 87094111,
    87094127, 87095088, 87095092, 87096056, 87097049, 87097081, 87100076, 87101021,
    87101085, 87102030, 87103089, 87103093, 87103097, 87103101, 87104064, 87105025,
    87107988, 87108084, 87111088, 87111104, 87111992, 87113065, 87113994, 87116076,
    87120080, 87124084, 87126054, 87126159, 87126207, 87127088, 87127100, 87127104,
    87127116, 87128207, 87129081, 87130207, 87135089, 87135109, 87135121, 87135125,
    87136016, 87138018, 87139043, 87145065, 87152032, 87153073, 87159090, 87159120,
    87159138, 87159144, 87161081, 87164044, 87165021, 87165231, 87166046, 87167089,
    87167093, 87167113, 87167121, 87167145, 87172207, 87174207, 87176207, 87178010,
    87183091, 87183131, 87183155, 87183163, 87186066, 87188068, 87189231, 87206255,
    87207088, 87207090, 87207092, 87207138, 87219059, 87231093, 87231153, 87231201,
    87241001, 87245005, 87247091, 87247139, 87247155, 87247203, 87247243, 87252052,
    87255094, 87989205, 87991996, 87992068, 87993193, 88000192, 88008010, 88008070,
    88011179, 88012172, 88016019, 88016073, 88022008, 88022166, 88029149, 88031151,
    88033153, 88035992, 88040042, 88040074, 88040078, 88040086, 88043243, 88044140,
    88048049, 88048079, 88048240, 88050130, 88052212, 88053221, 88055127, 88057177,
    88058202, 88059179, 88061181, 88062040, 88063183, 88064083, 88064087, 88065048,
    88065064, 88066114, 88068164, 88069048, 88069064, 88069109, 88070150, 88073048,
    88073064, 88073145, 88074122, 88075099, 88077048, 88077064, 88078126, 88079119,
    88081032, 88081048, 88081064, 88081080, 88083107, 88085016, 88085048, 88085064,
    88085080, 88086134, 88087111, 88087207, 88089049, 88089065, 88089081, 88090010,
    88090104, 88091996, 88093069, 88093085, 88095096, 88095112, 88095128, 88096089,
    88096093, 88098104, 88101077, 88102104, 88102136, 88102168, 88105065, 88108989,
    88109085, 88112089, 88112105, 88112993, 88114136, 88114168, 88117077, 88121081,
    88122136, 88125085, 88127160, 88127208, 88128089, 88128101, 88128105, 88128117,
    88129208, 88131208, 88137017, 88139019, 88140184, 88140248, 88156184, 88160091,
    88160121, 88160139, 88160145, 88165045, 88166232, 88168090, 88168146, 88172248,
    88173208, 88175208, 88177208, 88184092, 88187067, 88189069, 88190232, 88204248,
    88204989, 88208089, 88208091, 88208093, 88208139, 88220060, 88232094, 88232154,
    88232202, 88242002, 88248092, 88253053, 88990206, 88992997, 88993069, 88994194,
    89001193, 89009011, 89009071, 89012180, 89013173, 89017020, 89017074, 89017086,
    89023009, 89023167, 89028148, 89030150, 89032152, 89034001, 89034154, 89036993,
    89040033, 89041043, 89041075, 89041079, 89041087, 89044244, 89045141, 89049050,
    89049078, 89049080, 89049086, 89049241, 89050017, 89050049, 89051131, 89052049,
    89053213, 89054049, 89054222, 89056049, 89056128, 89058049, 89058178, 89059203,
    89060180, 89062049, 89062182, 89063111, 89064184, 89065066, 89065070, 89065082,
    89065084, 89065088, 89066106, 89067115, 89069057, 89069165, 89070110, 89071151,
    89074146, 89075123, 89076100, 89077057, 89078102, 89078118, 89079127, 89080120,
    89081082, 89081086, 89082090, 89082106, 89084108, 89086094, 89086126, 89086158,
    89087135, 89088112, 89088208, 89090097, 89091105, 89092997, 89094097, 89094113,
    89094129, 89096097, 89096113, 89096129, 89099105, 89102113, 89102129, 89103105,
    89103137, 89103169, 89106113, 89110113, 89110129, 89110161, 89110209, 89113994,
    89115137, 89115169, 89118129, 89123137, 89126129, 89126209, 89128161, 89128209,
    89130209, 89132209, 89138018, 89140161, 89141185, 89141249, 89157185, 89161092,
    89161146, 89166046, 89167233, 89169091, 89169147, 89172209, 89173249, 89174209,
    89176209, 89178209, 89185093, 89188068, 89191233, 89205249, 89209090, 89209092,
    89221061, 89233095, 89233155, 89233203, 89243003, 89249093, 89254054, 89991207,
    89993998, 89994070, 89994086, 89995195, 90002194, 90010012, 90010072, 90013181,
    90014174, 90018021, 90018075, 90018087, 90024010, 90024168, 90033153, 90035155,
    90037994, 90042044, 90044042, 90045245, 90046142, 90050051, 90050242, 90052042,
    90052132, 90054214, 90055223, 90056042, 90057129, 90060042, 90060204, 90062058,
    90063183, 90064042, 90065050, 90065185, 90067066, 90069018, 90069034, 90069050,
    90069066, 90070166, 90071066, 90071111, 90072042, 90072152, 90073050, 90073066,
    90075066, 90075147, 90076010, 90076042, 90076074, 90076986, 90077050, 90077066,
    90079066, 90080042, 90080074, 90081050, 90081066, 90083050, 90083066, 90083082,
    90084010, 90084042, 90084074, 90085050, 90085066, 90085082, 90087050, 90087066,
    90087082, 90088042, 90088074, 90089050, 90089066, 90089082, 90091051, 90091067,
    90091083, 90092012, 90092044, 90092076, 90093021, 90093053, 90093069, 90093085,
    90093998, 90095071, 90095087, 90096080, 90097041, 90097057, 90097073, 90097089,
    90098091, 90098093, 90098095, 90098097, 90099059, 90100052, 90100084, 90101077,
    90103079, 90103130, 90104024, 90104088, 90105033, 90105065, 90105081, 90106092,
    90106096, 90106100, 90106104, 90107067, 90108028, 90109069, 90109085, 90110014,
    90110991, 90111087, 90111130, 90112064, 90112993, 90113073, 90113089, 90114091,
    90114093, 90114097, 90114101, 90114105, 90114107, 90114109, 90114995, 90116068,
    90116170, 90116997, 90117077, 90119079, 90119130, 90121081, 90123083, 90124044,
    90124138, 90125085, 90127087, 90127130, 90127210, 90129057, 90129089, 90129210,
    90130091, 90130093, 90130107, 90131210, 90132138, 90132170, 90132234, 90133210,
    90138092, 90139019, 90141021, 90141162, 90142046, 90142186, 90142250, 90144064,
    90148170, 90153081, 90155035, 90156076, 90157998, 90158186, 90162093, 90162147,
    90164084, 90164170, 90167047, 90168024, 90169049, 90170092, 90170096, 90170124,
    90171051, 90173210, 90175210, 90177210, 90179210, 90181013, 90186094, 90189069,
    90191071, 90193073, 90198038, 90201081, 90206250, 90206991, 90210091, 90210093,
    90210095, 90210097, 90210185, 90210187, 90222062, 90225025, 90234096, 90234192,
    90235035, 90244004, 90248008, 90250094, 90250158, 90255055, 90992208, 90994999,
    90995071, 90996196, 91003195, 91011013, 91011073, 91014182, 91015175, 91019022,
    91019076, 91025011, 91025169, 91034154, 91036003, 91036156, 91038995, 91042035,
    91043045, 91046246, 91047143, 91051052, 91051082, 91051243, 91052019, 91052051,
    91053133, 91054051, 91055215, 91056035, 91056051, 91056224, 91058051, 91058130,
    91060051, 91061205, 91062051, 91064051, 91064184, 91065011, 91065043, 91066186,
    91067086, 91067090, 91068051, 91068067, 91069011, 91069043, 91071167, 91072051,
    91072067, 91072112, 91073011, 91073043, 91073153, 91076051, 91076067, 91076148,
    91077011, 91077043, 91077075, 91078102, 91080051, 91080067, 91081011, 91081043,
    91081075, 91082122, 91084035, 91084051, 91084067, 91084083, 91085011, 91085043,
    91085075, 91086110, 91088019, 91088051, 91088067, 91088083, 91089011, 91089043,
    91089075, 91090114, 91092052, 91092068, 91092084, 91093013, 91093045, 91093077,
    91094022, 91094999, 91096072, 91096088, 91097081, 91098099, 91098115, 91098131,
    91099092, 91099096, 91100060, 91101053, 91101085, 91102131, 91104080, 91104131,
    91105025, 91105089, 91106034, 91107093, 91107097, 91107101, 91107105, 91108068,
    91109029, 91111992, 91112088, 91112131, 91113065, 91115092, 91115108, 91115996,
    91117069, 91117171, 91117998, 91118131, 91120080, 91120131, 91124084, 91125139,
    91126131, 91126211, 91128088, 91128131, 91128211, 91130058, 91130211, 91131092,
    91131108, 91132211, 91133139, 91133171, 91133235, 91134211, 91139093, 91140020,
    91140147, 91142022, 91142163, 91143187, 91143251, 91145065, 91149171, 91156211,
    91157077, 91159187, 91163094, 91165085, 91165171, 91168048, 91169025, 91170050,
    91171093, 91171097, 91171125, 91172211, 91174211, 91176211, 91178211, 91180211,
    91182014, 91187095, 91190070, 91192072, 91207251, 91207992, 91211092, 91211094,
    91211096, 91211186, 91223063, 91235097, 91235193, 91245005, 91249009, 91251095,
    91251159, 91993209, 91996000, 91996072, 91997197, 92004196, 92012014, 92012074,
    92015183, 92016176, 92020023, 92020077, 92026012, 92026170, 92031151, 92033153,
    92035155, 92037157, 92039996, 92044046, 92044078, 92044082, 92044090, 92047247,
    92048144, 92052053, 92052083, 92052244, 92054134, 92056216, 92057225, 92059131,
    92061181, 92062206, 92063183, 92065052, 92065185, 92066114, 92067187, 92068087,
    92068091, 92069052, 92069068, 92070118, 92072168, 92073052, 92073068, 92073113,
    92074154, 92077052, 92077068, 92077149, 92078126, 92079103, 92081052, 92081068,
    92082130, 92083123, 92085036, 92085052, 92085068, 92085084, 92087111, 92089020,
    92089052, 92089068, 92089084, 92091115, 92093053, 92093069, 92093085, 92094014,
    92094108, 92096000, 92097073, 92097089, 92099100, 92099116, 92100093, 92100097,
    92102108, 92105081, 92106108, 92106140, 92109069, 92112993, 92113089, 92116093,
    92116109, 92116997, 92118172, 92121081, 92125085, 92129089, 92131059, 92132093,
    92132101, 92132105, 92132109, 92132113, 92132117, 92132121, 92132125, 92132131,
    92133212, 92134236, 92135212, 92140126, 92140130, 92141021, 92144252, 92150172,
    92157212, 92164095, 92164125, 92164143, 92164149, 92164155, 92169049, 92171051,
    92172094, 92172126, 92172130, 92172170, 92181212, 92188096, 92188136, 92188160,
    92188168, 92191071, 92193073, 92208252, 92208993, 92212093, 92212095, 92212097,
    92212131, 92212143, 92212145, 92212147, 92212177, 92212179, 92212187, 92212209,
    92212211, 92224064, 92236098, 92236194, 92244225, 92246006, 92252096, 92252160,
    92994210, 92997001, 92997073, 92998198, 93005197, 93013015, 93013075, 93016184,
    93017177, 93021024, 93021078, 93021090, 93027013, 93027171, 93028148, 93032152,
    93034154, 93036156, 93038005, 93038158, 93040997, 93044037, 93045047, 93045079,
    93045083, 93045091, 93048248, 93049145, 93053054, 93053082, 93053084, 93053090,
    93053245, 93054021, 93054053, 93055135, 93056053, 93057217, 93058053, 93058226,
    93060053, 93060132, 93062053, 93062182, 93063207, 93064184, 93065061, 93066186,
    93067115, 93068188, 93069070, 93069074, 93069086, 93069088, 93069092, 93070110,
    93071119, 93073061, 93073169, 93074114, 93075155, 93078150, 93079127, 93080104,
    93081061, 93082106, 93082122, 93083131, 93084124, 93085086, 93085090, 93086094,
    93086110, 93088112, 93090098, 93092116, 93092132, 93092212, 93094101, 93095109,
    93097001, 93098101, 93098117, 93100101, 93100117, 93103109, 93106117, 93106133,
    93107109, 93107141, 93110117, 93114117, 93114133, 93114165, 93114213, 93117998,
    93119173, 93122133, 93132165, 93132213, 93134213, 93135237, 93136213, 93141127,
    93141131, 93142022, 93145253, 93151173, 93156213, 93158213, 93165096, 93165144,
    93165150, 93170050, 93173095, 93173127, 93173131, 93173171, 93180213, 93182213,
    93189097, 93189137, 93189161, 93189169, 93192072, 93209253, 93213094, 93213096,
    93213144, 93213146, 93213178, 93213210, 93225065, 93237099, 93237195, 93245226,
    93247007, 93253097, 93253161, 93995211, 93998002, 93998066, 93998074, 93998090,
    93999199, 94006198, 94014016, 94014076, 94017185, 94018178, 94022025, 94022079,
    94022091, 94028014, 94028172, 94037157, 94039159, 94041998, 94046048, 94048046,
    94049249, 94050146, 94054055, 94054246, 94056046, 94056136, 94058218, 94059227,
    94060046, 94061133, 94064046, 94064208, 94065054, 94067187, 94068046, 94069054,
    94069189, 94071070, 94073022, 94073038, 94073054, 94073070, 94074170, 94075070,
    94075115, 94076046, 94076156, 94077054, 94077070, 94079070, 94079151, 94080014,
    94080046, 94080078, 94080990, 94081054, 94081070, 94083070, 94084046, 94084078,
    94084132, 94085054, 94085070, 94087054, 94087070, 94087086, 94088014, 94088046,
    94088078, 94089054, 94089070, 94089086, 94091054, 94091070, 94091086, 94092046,
    94092078, 94093054, 94093070, 94093086, 94095055, 94095071, 94095087, 94096016,
    94096048, 94096080, 94097025, 94097057, 94097073, 94097089, 94098002, 94099075,
    94099091, 94100084, 94101045, 94101061, 94101077, 94101093, 94102095, 94102097,
    94102099, 94102101, 94103063, 94104056, 94104088, 94105065, 94105081, 94107083,
    94108028, 94108092, 94109037, 94109069, 94109085, 94110096, 94110100, 94110104,
    94110108, 94111071, 94112032, 94113073, 94113089, 94114018, 94114995, 94115091,
    94116068, 94116997, 94117077, 94117093, 94118095, 94118097, 94118101, 94118105,
    94118109, 94118111, 94118113, 94118999, 94120072, 94121001, 94121081, 94123083,
    94125085, 94127087, 94128048, 94129089, 94131011, 94131091, 94133061, 94133093,
    94133166, 94133214, 94134095, 94134097, 94134107, 94134109, 94134111, 94134113,
    94134123, 94134125, 94135214, 94136088, 94137214, 94142096, 94142116, 94142128,
    94143023, 94145025, 94146050, 94147027, 94152072, 94159039, 94160080, 94162002,
    94166097, 94166127, 94166145, 94166151, 94168088, 94171051, 94172028, 94172238,
    94173053, 94174096, 94174100, 94174120, 94174128, 94174152, 94181214, 94183214,
    94185017, 94190098, 94190138, 94190162, 94190170, 94193073, 94195075, 94196238,
    94197077, 94202042, 94205085, 94210995, 94214095, 94214097, 94214099, 94214101,
    94214145, 94214147, 94214179, 94214211, 94226066, 94229029, 94238100, 94238160,
    94238208, 94248008, 94252012, 94254098, 94254146, 94254162, 94254210, 94254250,
    94985225, 94996212, 94999003, 94999075, 95000200, 95007199, 95015017, 95015077,
    95018186, 95019179, 95023026, 95023080, 95029015, 95029173, 95036156, 95038158,
    95040007, 95040160, 95042999, 95046039, 95047049, 95050250, 95051147, 95055056,
    95055086, 95055247, 95056023, 95056055, 95057137, 95058055, 95059219, 95060039,
    95060055, 95060228, 95062055, 95062134, 95064055, 95065015, 95065047, 95065209,
    95066186, 95068055, 95068188, 95069015, 95069047, 95070190, 95071090, 95071094,
    95072055, 95072071, 95073015, 95073047, 95075171, 95076055, 95076071, 95076116,
    95077015, 95077047, 95077157, 95080055, 95080071, 95080152, 95081015, 95081047,
    95081079, 95082106, 95084055, 95084071, 95085015, 95085047, 95085079, 95085133,
    95086126, 95088039, 95088055, 95088071, 95088087, 95089015, 95089047, 95089079,
    95090114, 95092023, 95092055, 95092071, 95092087, 95093015, 95093047, 95093079,
    95094118, 95094214, 95096056, 95096072, 95096088, 95097017, 95097049, 95097081,
    95098026, 95099003, 95100076, 95100092, 95101085, 95102103, 95102119, 95102135,
    95103096, 95103100, 95104064, 95105057, 95105089, 95108084, 95109029, 95109093,
    95110038, 95111097, 95111101, 95111105, 95111109, 95112072, 95115996, 95116092,
    95117069, 95119096, 95119112, 95120000, 95121073, 95122002, 95124084, 95128088,
    95132092, 95132135, 95132215, 95134062, 95134167, 95134215, 95135096, 95135108,
    95135112, 95135124, 95136215, 95137089, 95138215, 95143097, 95143117, 95143129,
    95144024, 95146026, 95147051, 95153073, 95160040, 95161081, 95167098, 95167128,
    95167146, 95167152, 95169089, 95172052, 95173029, 95173239, 95174054, 95175097,
    95175101, 95175121, 95175129, 95175153, 95180215, 95182215, 95184215, 95186018,
    95191099, 95191139, 95191163, 95191171, 95194074, 95196076, 95197239, 95215096,
    95215098, 95215100, 95215146, 95224985, 95227067, 95239101, 95239161, 95239209,
    95249009, 95253013, 95255099, 95255147, 95255163, 95255211, 95255251, 95986226,
    95997213, 96000004, 96000076, 96001201, 96008200, 96016018, 96016078, 96019187,
    96020180, 96024027, 96024081, 96030016, 96030174, 96037157, 96039159, 96041161,
    96044000, 96048050, 96048082, 96048086, 96048094, 96051251, 96052148, 96056057,
    96056087, 96056248, 96058138, 96060220, 96061229, 96063135, 96065056, 96066210,
    96067187, 96069056, 96069189, 96070118, 96071191, 96072091, 96072095, 96073056,
    96073072, 96074122, 96076172, 96077056, 96077072, 96077117, 96078158, 96081056,
    96081072, 96081153, 96083107, 96085056, 96085072, 96086134, 96087127, 96089040,
    96089056, 96089072, 96089088, 96091115, 96093024, 96093056, 96093072, 96093088,
    96094142, 96095119, 96095215, 96097057, 96097073, 96097089, 96098018, 96098112,
    96100004, 96101077, 96101093, 96103104, 96103120, 96103136, 96104097, 96104101,
    96105065, 96106112, 96109085, 96110112, 96110144, 96110176, 96113073, 96116997,
    96117093, 96120097, 96120113, 96121001, 96122144, 96122176, 96125085, 96129089,
    96133093, 96133136, 96133216, 96135168, 96135216, 96136097, 96136109, 96136113,
    96136125, 96137216, 96139216, 96144130, 96145025, 96147027, 96148192, 96164192,
    96168099, 96168129, 96168147, 96168153, 96173053, 96174240, 96176098, 96176130,
    96176154, 96181216, 96183216, 96185216, 96192100, 96195075, 96197077, 96198240,
    96212997, 96216097, 96216099, 96216101, 96216147, 96225986, 96228068, 96240102,
    96240162, 96240210, 96250010, 96987227, 96998214, 97001005, 97001077, 97002202,
    97009201, 97017019, 97017079, 97020188, 97021181, 97025028, 97025082, 97025094,
    97031017, 97031175, 97036156, 97038158, 97040160, 97042009, 97042162, 97045001,
    97048041, 97049051, 97049083, 97049087, 97049095, 97052252, 97053149, 97057058,
    97057066, 97057086, 97057088, 97057094, 97057249, 97058025, 97058057, 97059139,
    97060057, 97061221, 97062057, 97062230, 97064057, 97064136, 97066186, 97067211,
    97068188, 97070190, 97071119, 97072192, 97073033, 97073074, 97073078, 97073090,
    97073092, 97073096, 97074114, 97075123, 97077173, 97078118, 97079159, 97082154,
    97084108, 97086110, 97086126, 97087135, 97088128, 97089033, 97089090, 97089094,
    97090098, 97090114, 97092116, 97094102, 97094134, 97094166, 97095143, 97096120,
    97096216, 97098105, 97099113, 97101005, 97102105, 97102121, 97102137, 97104105,
    97104121, 97104137, 97107113, 97110121, 97110137, 97111113, 97111145, 97111177,
    97114121, 97118121, 97118137, 97118169, 97118217, 97122002, 97123145, 97123177,
    97126137, 97131051, 97132137, 97132153, 97132217, 97134137, 97134217, 97136169,
    97136217, 97138217, 97140217, 97145131, 97146026, 97148169, 97149193, 97165193,
    97169100, 97169130, 97169154, 97174054, 97175241, 97177099, 97177131, 97177155,
    97180217, 97182217, 97184217, 97186217, 97193101, 97196076, 97199241, 97217098,
    97217100, 97229069, 97241103, 97241163, 97241211, 97251011, 97988228, 97999215,
    98002006, 98002070, 98002078, 98002094, 98003203, 98010202, 98018020, 98018080,
    98021189, 98022182, 98026029, 98026083, 98026095, 98032018, 98032176, 98041161,
    98043163, 98046002, 98050052, 98052050, 98053253, 98054150, 98058059, 98058250,
    98060050, 98060140, 98062222, 98063231, 98064050, 98065058, 98068050, 98068212,
    98069058, 98071191, 98072050, 98073058, 98073193, 98075074, 98077026, 98077042,
    98077058, 98077074, 98078174, 98079074, 98079119, 98080050, 98080160, 98081058,
    98081074, 98083074, 98083155, 98083986, 98084018, 98084050, 98084082, 98084994,
    98085058, 98085074, 98087074, 98088050, 98088082, 98089058, 98089074, 98091058,
    98091074, 98091090, 98092018, 98092050, 98092082, 98093058, 98093074, 98093090,
    98095058, 98095074, 98095090, 98096050, 98096082, 98097058, 98097074, 98097090,
    98099059, 98099075, 98099091, 98100020, 98100052, 98100084, 98101029, 98101061,
    98101077, 98101093, 98102006, 98103079, 98103095, 98104088, 98104985, 98105049,
    98105065, 98105081, 98105097, 98106099, 98106101, 98106103, 98106105, 98107067,
    98108060, 98108092, 98109069, 98109085, 98111087, 98111138, 98112032, 98112096,
    98113041, 98113073, 98113089, 98114100, 98114104, 98114108, 98114112, 98115075,
    98116036, 98117077, 98117093, 98118022, 98118999, 98119095, 98119138, 98120072,
    98121001, 98121081, 98121097, 98122099, 98122101, 98122105, 98122109, 98122113,
    98122115, 98122117, 98123003, 98124076, 98124178, 98125005, 98125085, 98126130,
    98127087, 98127138, 98129089, 98131059, 98131091, 98132146, 98133093, 98133138,
    98133218, 98135095, 98135138, 98135218, 98137065, 98137097, 98137218, 98138099,
    98138101, 98138115, 98138131, 98139218, 98140146, 98140178, 98140242, 98141218,
    98146100, 98147027, 98149029, 98149170, 98150054, 98150194, 98152072, 98156178,
    98161089, 98163043, 98164084, 98166006, 98166194, 98170101, 98170131, 98170155,
    98172092, 98172178, 98175055, 98176032, 98177057, 98178100, 98178104, 98179059,
    98181218, 98183218, 98185065, 98185218, 98187218, 98189021, 98194102, 98197077,
    98199079, 98201081, 98206046, 98209089, 98214999, 98218099, 98218101, 98218103,
    98218105, 98218193, 98218195, 98227988, 98230070, 98242104, 98242200, 98243043,
    98252012, 98985225, 98989229, 99000216, 99003007, 99003079, 99004204, 99011203,
    99019021, 99019081, 99022190, 99023183, 99027030, 99027084, 99033177, 99042162,
    99044011, 99044164, 99047003, 99050043, 99051053, 99054254, 99055151, 99059060,
    99059090, 99059251, 99060027, 99060059, 99061141, 99062059, 99063223, 99064043,
    99064059, 99064232, 99065051, 99066138, 99068059, 99069019, 99069051, 99069213,
    99070190, 99072059, 99072192, 99073019, 99073051, 99074194, 99075094, 99075098,
    99076059, 99076075, 99077019, 99077051, 99079175, 99080059, 99080075, 99080120,
    99081019, 99081051, 99081161, 99084059, 99084075, 99084156, 99084987, 99085019,
    99085051, 99085083, 99086110, 99088059, 99088075, 99089019, 99089051, 99089083,
    99090130, 99092043, 99092059, 99092075, 99092091, 99093019, 99093051, 99093083,
    99094118, 99096027, 99096059, 99096075, 99096091, 99097019, 99097051, 99097083,
    99098122, 99100060, 99100076, 99100092, 99101021, 99101053, 99101085, 99102030,
    99103007, 99104080, 99104096, 99105089, 99106107, 99106123, 99106139, 99107100,
    99107104, 99108068, 99109061, 99109093, 99110139, 99112088, 99112139, 99113097,
    99114042, 99115101, 99115105, 99115109, 99115113, 99116076, 99120000, 99120096,
    99120139, 99121073, 99123100, 99123116, 99124004, 99125077, 99125179, 99126006,
    99126139, 99127131, 99128088, 99128139, 99128985, 99132092, 99132139, 99132219,
    99133147, 99134139, 99134219, 99136096, 99136139, 99136219, 99138066, 99138219,
    99139100, 99139116, 99140219, 99141147, 99141179, 99141243, 99142219, 99147101,
    99148028, 99148155, 99150030, 99150171, 99151195, 99153073, 99157179, 99164219,
    99165085, 99167195, 99171102, 99173093, 99173179, 99176056, 99178058, 99179101,
    99179105, 99180219, 99182219, 99184219, 99186219, 99188219, 99190022, 99195103,
    99198078, 99200080, 99216000, 99219100, 99219102, 99219104, 99219194, 99228989,
    99231071, 99243105, 99243201, 99253013, 99986226, 99990230, 100001217, 100004008,
    100004080, 100005205, 100012204, 100020022, 100020082, 100023191, 100024184, 100028031,
    100028085, 100034020, 100034178, 100039159, 100041161, 100043163, 100045165, 100048004,
    100052054, 100052086, 100052090, 100052098, 100055255, 100056152, 100060061, 100060091,
    100060252, 100062142, 100064224, 100065044, 100065060, 100065233, 100067139, 100069060,
    100070214, 100071191, 100073060, 100073193, 100074122, 100075195, 100076095, 100076099,
    100077060, 100077076, 100078126, 100080176, 100081060, 100081076, 100081121, 100082162,
    100085060, 100085076, 100085157, 100086134, 100087111, 100089060, 100089076, 100090138,
    100091131, 100093044, 100093060, 100093076, 100093092, 100095119, 100097028, 100097060,
    100097076, 100097092, 100099123, 100101061, 100101077, 100101093, 100102022, 100102116,
    100104008, 100104985, 100105081, 100105097, 100107108, 100107124, 100108101, 100108105,
    100109069, 100110116, 100113089, 100114116, 100114148, 100117077, 100121001, 100121097,
    100124101, 100124117, 100125005, 100126180, 100129089, 100132128, 100133093, 100137097,
    100139067, 100140101, 100140109, 100140113, 100140117, 100140121, 100140125, 100140129,
    100140131, 100140139, 100141220, 100142244, 100143220, 100148130, 100148134, 100148138,
    100149029, 100158180, 100165220, 100172103, 100172151, 100172157, 100172163, 100177057,
    100179059, 100180102, 100180134, 100180138, 100180178, 100184985, 100189220, 100196104,
    100196144, 100196168, 100196176, 100199079, 100201081, 100217001, 100220101, 100220103,
    100220105, 100220139, 100220151, 100220153, 100220155, 100220185, 100220187, 100220195,
    100220217, 100220219, 100229990, 100232072, 100244106, 100244202, 100252233, 100254014,
    100987227, 100991231, 101002218, 101005009, 101005081, 101006206, 101013205, 101021023,
    101021083, 101024192, 101025185, 101029032, 101029086, 101029098, 101035179, 101036156,
    101040160, 101042162, 101044164, 101046013, 101046166, 101049005, 101052045, 101053055,
    101053087, 101053091, 101053099, 101057153, 101061062, 101061070, 101061090, 101061092,
    101061098, 101061253, 101062029, 101062061, 101063143, 101064061, 101065225, 101066234,
    101068061, 101068140, 101070190, 101071215, 101072192, 101074194, 101075123, 101076196,
    101077037, 101077078, 101077082, 101077094, 101077096, 101077100, 101078118, 101079127,
    101081177, 101082122, 101083163, 101086158, 101087135, 101088112, 101090114, 101090130,
    101091139, 101092132, 101093037, 101093094, 101093098, 101094102, 101094118, 101096120,
    101098106, 101100124, 101100140, 101100220, 101102109, 101103117, 101105009, 101106109,
    101106125, 101108109, 101108125, 101111117, 101114125, 101114141, 101115117, 101115149,
    101118125, 101122125, 101122141, 101122173, 101122221, 101126006, 101127181, 101133129,
    101140173, 101140221, 101141130, 101142221, 101143245, 101144221, 101149131, 101149135,
    101149139, 101150030, 101159181, 101164221, 101166221, 101173104, 101173152, 101173158,
    101178058, 101181103, 101181135, 101181139, 101181179, 101188221, 101190221, 101197105,
    101197145, 101197169, 101197177, 101200080, 101221102, 101221104, 101221152, 101221154,
    101221186, 101221218, 101233073, 101245107, 101245203, 101253234, 101255015, 101988228,
    101992232, 102003219, 102006010, 102006074, 102006082, 102006098, 102007207, 102014206,
    102022024, 102022084, 102025193, 102026186, 102030033, 102030087, 102030099, 102036022,
    102036180, 102045165, 102047167, 102050006, 102054056, 102056054, 102058154, 102062063,
    102062254, 102064054, 102064144, 102065062, 102066226, 102067235, 102068054, 102069062,
    102069141, 102072054, 102072216, 102073062, 102075195, 102076054, 102077062, 102077197,
    102079078, 102081030, 102081046, 102081062, 102081078, 102082178, 102083078, 102083123,
    102084054, 102084164, 102085062, 102085078, 102087078, 102087159, 102087990, 102088022,
    102088054, 102088086, 102088998, 102089062, 102089078, 102091078, 102092054, 102092086,
    102092140, 102093062, 102093078, 102095062, 102095078, 102095094, 102096022, 102096054,
    102096086, 102097062, 102097078, 102097094, 102099062, 102099078, 102099094, 102100054,
    102100086, 102101062, 102101078, 102101094, 102103063, 102103079, 102103095, 102104024,
    102104056, 102104088, 102104985, 102105033, 102105065, 102105081, 102105097, 102106010,
    102106987, 102107083, 102107099, 102108092, 102108989, 102109053, 102109069, 102109085,
    102109101, 102110103, 102110105, 102110107, 102110109, 102111071, 102112064, 102112096,
    102113073, 102113089, 102115091, 102116036, 102116100, 102117045, 102117077, 102117093,
    102118104, 102118108, 102118112, 102118116, 102119079, 102120040, 102121081, 102121097,
    102122026, 102123003, 102123099, 102124076, 102125005, 102125085, 102125101, 102126103,
    102126105, 102126109, 102126113, 102126117, 102126119, 102126121, 102127007, 102128080,
    102129009, 102129089, 102131091, 102131988, 102134130, 102135095, 102136056, 102137097,
    102139019, 102139099, 102141069, 102141101, 102141174, 102141222, 102142103, 102142105,
    102142115, 102142117, 102142119, 102142121, 102142131, 102143222, 102144096, 102145222,
    102150104, 102150124, 102150136, 102151031, 102153033, 102154058, 102155035, 102160080,
    102167047, 102168088, 102170010, 102174105, 102174135, 102174153, 102174159, 102176096,
    102179059, 102180036, 102180246, 102181061, 102182104, 102182108, 102182128, 102182136,
    102182160, 102186987, 102189069, 102189222, 102191222, 102193025, 102198106, 102198146,
    102198170, 102198178, 102201081, 102203083, 102204246, 102205085, 102210050, 102213093,
    102219003, 102222103, 102222105, 102222107, 102222109, 102222153, 102222155, 102222187,
    102222219, 102231992, 102234074, 102246108, 102246168, 102246216, 102989229, 102993233,
    103004220, 103007011, 103007083, 103008208, 103015207, 103023025, 103023085, 103026194,
    103027187, 103031034, 103031088, 103037181, 103044164, 103046166, 103048015, 103048168,
    103051007, 103054047, 103055057, 103059155, 103063064, 103063094, 103063255, 103064031,
    103064063, 103065023, 103065055, 103065145, 103067227, 103068047, 103068063, 103068236,
    103069055, 103070142, 103072063, 103073023, 103073055, 103073217, 103074194, 103076063,
    103076196, 103077023, 103077055, 103078198, 103079098, 103079102, 103080063, 103080079,
    103081023, 103081055, 103083179, 103084063, 103084079, 103084124, 103085023, 103085055,
    103085165, 103088063, 103088079, 103088160, 103088991, 103089023, 103089055, 103089087,
    103090114, 103092063, 103092079, 103093023, 103093055, 103093087, 103093141, 103094134,
    103096047, 103096063, 103096079, 103096095, 103097023, 103097055, 103097087, 103098122,
    103100031, 103100063, 103100079, 103100095, 103101023, 103101055, 103101087, 103102126,
    103102222, 103104064, 103104080, 103104096, 103105025, 103105057, 103105089, 103105986,
    103106034, 103107011, 103107988, 103108084, 103108100, 103109093, 103110111, 103110127,
    103110143, 103111104, 103111108, 103112072, 103113065, 103113097, 103116092, 103117101,
    103118046, 103119105, 103119109, 103119113, 103119117, 103120080, 103124004, 103124100,
    103125077, 103127104, 103127120, 103128008, 103129081, 103130010, 103132143, 103132989,
    103135131, 103136096, 103140100, 103140143, 103140223, 103142175, 103142223, 103143104,
    103143116, 103143120, 103144223, 103145097, 103146223, 103151105, 103151125, 103151137,
    103152032, 103154034, 103155059, 103161081, 103168048, 103169089, 103175106, 103175136,
    103175154, 103175160, 103177097, 103180060, 103181247, 103182062, 103183105, 103183109,
    103183129, 103183137, 103183161, 103188223, 103190223, 103192223, 103194026, 103199107,
    103199147, 103199171, 103199179, 103202082, 103204084, 103205247, 103223104, 103223106,
    103223108, 103223154, 103232993, 103235075, 103247109, 103247169, 103247217, 103990230,
    103994234, 104005221, 104008012, 104008084, 104009209, 104016208, 104024026, 104024086,
    104027195, 104028188, 104032035, 104032089, 104038024, 104038182, 104045165, 104047167,
    104049169, 104052008, 104056058, 104056066, 104056090, 104056094, 104056102, 104060156,
    104064065, 104064095, 104065032, 104065064, 104066146, 104068228, 104069048, 104069064,
    104069237, 104071143, 104073064, 104074218, 104075195, 104077064, 104077197, 104078126,
    104079199, 104080099, 104080103, 104081064, 104081080, 104082130, 104084180, 104085064,
    104085080, 104085125, 104086166, 104089064, 104089080, 104089161, 104091115, 104093064,
    104093080, 104094142, 104095135, 104097048, 104097064, 104097080, 104097096, 104099123,
    104101032, 104101064, 104101080, 104101096, 104102150, 104103127, 104103223, 104104985,
    104105065, 104105081, 104105097, 104106026, 104106120, 104106987, 104108012, 104108989,
    104109085, 104109101, 104111112, 104111128, 104111144, 104112105, 104112109, 104113073,
    104114120, 104117093, 104118120, 104118152, 104118184, 104121081, 104125005, 104125101,
    104128105, 104128121, 104129009, 104132136, 104132200, 104133144, 104137097, 104141101,
    104141144, 104141224, 104143176, 104143224, 104144105, 104144117, 104144121, 104145224,
    104147224, 104152138, 104153033, 104155035, 104156200, 104172200, 104176107, 104176137,
    104176155, 104176161, 104181061, 104182248, 104184106, 104184130, 104184138, 104184162,
    104188989, 104189224, 104191224, 104193224, 104200108, 104203083, 104205085, 104206248,
    104221005, 104224105, 104224107, 104224109, 104224155, 104233994, 104236076, 104248110,
    104248170, 104248218, 104984986, 104984988, 104984990, 104985074, 104985076, 104985078,
    104985080, 104987227, 104991231, 104995235, 105005985, 105006222, 105009013, 105009085,
    105010210, 105017209, 105021985, 105025027, 105025087, 105025985, 105028196, 105029189,
    105029985, 105033036, 105033090, 105033102, 105033985, 105036033, 105039183, 105042033,
    105044164, 105045985, 105046166, 105048033, 105048168, 105050017, 105050170, 105053009,
    105054033, 105056049, 105057059, 105057091, 105057095, 105057103, 105057985, 105060033,
    105061157, 105065041, 105065066, 105065074, 105065082, 105065094, 105065096, 105065102,
    105067147, 105069229, 105070238, 105072144, 105074194, 105075219, 105076196, 105078198,
    105079127, 105080200, 105081041, 105081082, 105081086, 105081098, 105081100, 105081104,
    105082122, 105083131, 105084033, 105085181, 105086126, 105087167, 105090162, 105092116,
    105094118, 105094134, 105095143, 105096136, 105097041, 105097098, 105097102, 105098106,
    105098122, 105100124, 105102110, 105102142, 105102174, 105103151, 105104128, 105104224,
    105105986, 105106113, 105107121, 105107988, 105109013, 105110113, 105110129, 105110145,
    105112113, 105112129, 105112145, 105115121, 105118129, 105118145, 105119121, 105119153,
    105119185, 105122129, 105126129, 105126145, 105126177, 105126225, 105130010, 105132145,
    105133137, 105133201, 105134145, 105139059, 105140145, 105140161, 105140225, 105142145,
    105142225, 105144177, 105144225, 105146225, 105148225, 105153139, 105154034, 105156177,
    105157201, 105173201, 105177108, 105177138, 105177162, 105182062, 105183249, 105185107,
    105185131, 105185139, 105185163, 105188225, 105190225, 105192225, 105194225, 105201109,
    105204084, 105207249, 105225106, 105225108, 105237077, 105249111, 105249171, 105249219,
    105985249, 105985987, 105985989, 105985991, 105986079, 105986081, 105992232, 105996236,
    106006986, 106007223, 106010014, 106010078, 106010086, 106010102, 106011211, 106018210,
    106022986, 106026028, 106026088, 106026986, 106029197, 106030190, 106030986, 106034037,
    106034091, 106034103, 106040026, 106040184, 106049169, 106051171, 106054010, 106058060,
    106058986, 106060058, 106062158, 106066067, 106066986, 106067066, 106068058, 106068148,
    106068986, 106069066, 106070230, 106071066, 106071239, 106072058, 106073066, 106075066,
    106076058, 106076220, 106076986, 106077066, 106079066, 106079199, 106080058, 106081066,
    106081201, 106083066, 106083082, 106084132, 106084986, 106085034, 106085050, 106085066,
    106085082, 106086182, 106087066, 106087082, 106087127, 106088058, 106088168, 106089066,
    106089082, 106091066, 106091082, 106091163, 106091994, 106092026, 106092058, 106092090,
    106093002, 106093066, 106093082, 106095066, 106095082, 106096058, 106096090, 106097066,
    106097082, 106099066, 106099082, 106099098, 106100026, 106100058, 106100090, 106100986,
    106101066, 106101082, 106101098, 106103066, 106103082, 106103098, 106104058, 106104090,
    106105066, 106105082, 106105098, 106106987, 106107067, 106107083, 106107099, 106108028,
    106108060, 106108092, 106108989, 106109037, 106109069, 106109085, 106109101, 106110014,
    106110991, 106111087, 106111103, 106112096, 106112993, 106113057, 106113073, 106113089,
    106113105, 106114107, 106114109, 106114111, 106114113, 106115075, 106116068, 106116100,
    106117077, 106117093, 106119095, 106119130, 106119146, 106120040, 106120104, 106121049,
    106121081, 106121097, 106122108, 106122112, 106122116, 106122120, 106123083, 106123130,
    106124044, 106125085, 106125101, 106126030, 106127007, 106127103, 106127130, 106127146,
    106128080, 106129009, 106129089, 106129105, 106130107, 106130109, 106130117, 106131011,
    106132084, 106132154, 106132186, 106133093, 106133146, 106134138, 106135095, 106135146,
    106135992, 106137097, 106139067, 106139099, 106140154, 106141101, 106141146, 106141226,
    106143103, 106143146, 106143226, 106145073, 106145105, 106145226, 106146107, 106146109,
    106146123, 106146139, 106147226, 106148154, 106148186, 106148250, 106149226, 106154108,
    106155035, 106157037, 106157178, 106158062, 106158202, 106160080, 106164186, 106169097,
    106171051, 106172092, 106174014, 106174202, 106178109, 106178139, 106178163, 106180100,
    106180186, 106183063, 106184040, 106185065, 106186108, 106186112, 106187067, 106189226,
    106190991, 106191226, 106193073, 106193226, 106195226, 106197029, 106202110, 106205085,
    106207087, 106209089, 106214054, 106217097, 106223007, 106226107, 106226109, 106226111,
    106226113, 106226201, 106226203, 106235996, 106238078, 106248985, 106250112, 106250208,
    106251051, 106986250, 106986988, 106986990, 106986992, 106987078, 106987080, 106987082,
    106993233, 106997237, 107007987, 107008224, 107011015, 107011087, 107012212, 107019211,
    107023987, 107027029, 107027089, 107027987, 107030198, 107031191, 107031987, 107035038,
    107035092, 107035987, 107038035, 107041185, 107044035, 107047987, 107050035, 107050170,
    107052019, 107052172, 107055011, 107056035, 107058051, 107059061, 107059987, 107062035,
    107063159, 107064995, 107065027, 107065059, 107067068, 107067098, 107067987, 107068035,
    107068067, 107069027, 107069059, 107069149, 107071231, 107071987, 107072051, 107072067,
    107072240, 107073059, 107074146, 107076067, 107077027, 107077059, 107077221, 107078198,
    107080067, 107080200, 107081027, 107081059, 107082202, 107083102, 107083106, 107084067,
    107084083, 107085027, 107085059, 107085133, 107087183, 107088067, 107088083, 107088128,
    107089027, 107089059, 107089169, 107092067, 107092083, 107092164, 107092995, 107093027,
    107093059, 107093091, 107094118, 107095987, 107096067, 107096083, 107097027, 107097059,
    107097091, 107098138, 107100051, 107100067, 107100083, 107100099, 107101027, 107101059,
    107101091, 107102126, 107104035, 107104067, 107104083, 107104099, 107105027, 107105059,
    107105091, 107107988, 107108068, 107108084, 107108100, 107109029, 107109061, 107109093,
    107109990, 107110038, 107111015, 107111992, 107112088, 107112104, 107113097, 107114115,
    107114131, 107114147, 107115108, 107115112, 107116076, 107117069, 107117101, 107118131,
    107118147, 107120096, 107120131, 107120147, 107121105, 107122050, 107122131, 107123109,
    107123113, 107123117, 107123121, 107124084, 107124131, 107126131, 107128008, 107128104,
    107128131, 107128147, 107129081, 107131108, 107132147, 107133085, 107133155, 107133187,
    107134014, 107134147, 107135139, 107136096, 107136147, 107136993, 107140100, 107140147,
    107140227, 107141155, 107142147, 107142227, 107144104, 107144147, 107144227, 107146074,
    107146227, 107147108, 107147124, 107148227, 107149155, 107149187, 107149251, 107150227,
    107155109, 107156036, 107156163, 107158038, 107158179, 107159203, 107161081, 107165187,
    107172227, 107173093, 107175203, 107179110, 107181101, 107181187, 107184064, 107186066,
    107187109, 107187113, 107188227, 107190227, 107191992, 107192227, 107194227, 107196227,
    107198030, 107203111, 107206086, 107208088, 107224008, 107227108, 107227110, 107227112,
    107227202, 107236997, 107239079, 107249986, 107251113, 107251209, 107986226, 107987251,
    107987989, 107987991, 107987993, 107988079, 107988081, 107988083, 107994234, 107998238,
    108008988, 108009225, 108012016, 108012088, 108013213, 108020212, 108024988, 108028030,
    108028090, 108028988, 108031199, 108032192, 108036039, 108036093, 108042028, 108042186,
    108047167, 108049169, 108051171, 108053173, 108056012, 108060062, 108060070, 108060094,
    108060098, 108060106, 108060988, 108064160, 108068069, 108068099, 108068988, 108069036,
    108069068, 108070150, 108072232, 108072988, 108073052, 108073068, 108073241, 108075147,
    108077068, 108078222, 108079199, 108081068, 108081201, 108083203, 108084103, 108084107,
    108085068, 108085084, 108086134, 108088184, 108089068, 108089084, 108089129, 108090170,
    108093068, 108093084, 108093165, 108094142, 108095119, 108096988, 108097068, 108097084,
    108098146, 108099139, 108101052, 108101068, 108101084, 108101100, 108103127, 108105036,
    108105068, 108105084, 108105100, 108108989, 108109069, 108109085, 108109101, 108110030,
    108110124, 108110991, 108112016, 108112993, 108113089, 108113105, 108115116, 108116109,
    108116113, 108117077, 108118124, 108121097, 108122124, 108122156, 108125085, 108129009,
    108129105, 108132109, 108132117, 108132119, 108132121, 108132125, 108132127, 108132129,
    108132131, 108134188, 108137097, 108140136, 108141101, 108145105, 108147075, 108148109,
    108148117, 108148121, 108148125, 108148129, 108148131, 108148137, 108148139, 108148147,
    108149228, 108150252, 108151228, 108156130, 108156138, 108156142, 108156146, 108157037,
    108166188, 108173228, 108180111, 108180159, 108180165, 108180171, 108185065, 108187067,
    108188110, 108188142, 108188146, 108188186, 108192993, 108197228, 108204112, 108204152,
    108204176, 108204184, 108207087, 108209089, 108225009, 108228109, 108228111, 108228113,
    108228147, 108228159, 108228161, 108228163, 108228193, 108228195, 108228203, 108228225,
    108228227, 108237998, 108240080, 108250987, 108252114, 108252210, 108987227, 108988252,
    108988990, 108988992, 108988994, 108989078, 108989080, 108989082, 108989084, 108991231,
    108995235, 108999239, 109009989, 109010226, 109013017, 109013089, 109014214, 109021213,
    109025989, 109029031, 109029091, 109029989, 109032200, 109033193, 109033989, 109037040,
    109037094, 109037106, 109037989, 109040037, 109043187, 109044164, 109046037, 109048168,
    109049989, 109050170, 109052037, 109052172, 109054021, 109054174, 109057013, 109058037,
    109060053, 109061063, 109061095, 109061099, 109061107, 109061989, 109064037, 109065161,
    109069045, 109069070, 109069078, 109069086, 109069098, 109069100, 109069106, 109070142,
    109071151, 109073233, 109074242, 109076148, 109078198, 109079223, 109080200, 109082202,
    109084204, 109085045, 109085086, 109085090, 109085102, 109085104, 109085108, 109086126,
    109087135, 109088037, 109089185, 109090130, 109091171, 109094166, 109095143, 109096120,
    109098122, 109098138, 109099147, 109100140, 109101045, 109101102, 109101106, 109102110,
    109102126, 109104128, 109106114, 109108132, 109108148, 109108228, 109109990, 109110117,
    109111125, 109111992, 109113017, 109114117, 109116117, 109119125, 109122133, 109122149,
    109123125, 109123157, 109126133, 109133120, 109133128, 109133130, 109134014, 109135189,
    109141137, 109148181, 109148229, 109149130, 109149138, 109150229, 109151253, 109152229,
    109157131, 109157139, 109157143, 109157147, 109158038, 109167189, 109172229, 109174229,
    109181112, 109181160, 109181166, 109186066, 109189111, 109189143, 109189147, 109189187,
    109196229, 109198229, 109205113, 109205153, 109205177, 109205185, 109208088, 109229110,
    109229112, 109229160, 109229162, 109229194, 109229226, 109241081, 109253115, 109253211,
    109989253, 109989991, 109989993, 109989995, 109990083, 109990085, 109996236, 110000240,
    110010990, 110011227, 110014018, 110014082, 110014090, 110014106, 110015215, 110022214,
    110026990, 110030032, 110030092, 110030990, 110033201, 110034194, 110038041, 110038095,
    110038107, 110044030, 110044188, 110053173, 110055175, 110058014, 110062064, 110062990,
    110064062, 110064990, 110065038, 110066162, 110070071, 110070990, 110071070, 110072062,
    110072152, 110072990, 110073070, 110074234, 110075070, 110075243, 110076062, 110077070,
    110077149, 110079070, 110080062, 110080224, 110080990, 110081070, 110083070, 110083203,
    110084062, 110085070, 110085205, 110087070, 110087086, 110088990, 110089038, 110089054,
    110089070, 110089086, 110090186, 110091070, 110091086, 110092062, 110092172, 110093070,
    110093086, 110095070, 110095086, 110095167, 110095998, 110096030, 110096062, 110096094,
    110097006, 110097070, 110097086, 110099070, 110099086, 110100062, 110100094, 110100148,
    110101070, 110101086, 110103070, 110103086, 110103102, 110104030, 110104062, 110104094,
    110104990, 110105070, 110105086, 110105102, 110107070, 110107086, 110107102, 110108062,
    110108094, 110109070, 110109086, 110109102, 110110991, 110111071, 110111087, 110111103,
    110112032, 110112064, 110112096, 110112993, 110113041, 110113073, 110113089, 110113105,
    110114018, 110114995, 110115091, 110115107, 110116100, 110116997, 110117061, 110117077,
    110117093, 110117109, 110118111, 110118113, 110118115, 110118117, 110119079, 110120072,
    110120104, 110121081, 110121097, 110123099, 110124044, 110124108, 110125053, 110125085,
    110125101, 110126112, 110126116, 110126120, 110126124, 110127087, 110128048, 110129089,
    110129105, 110130034, 110131011, 110131075, 110131091, 110131107, 110133109, 110134111,
    110134113, 110134117, 110134121, 110134125, 110134127, 110134129, 110134131, 110135015,
    110136088, 110137017, 110137097, 110139099, 110139996, 110142130, 110142138, 110143103,
    110144064, 110145105, 110145986, 110147027, 110147107, 110149077, 110149109, 110149182,
    110149230, 110150111, 110150113, 110150123, 110150125, 110150127, 110150129, 110150131,
    110150139, 110151230, 110152104, 110153230, 110158112, 110158144, 110159039, 110161041,
    110162066, 110163043, 110166131, 110168088, 110175055, 110176096, 110178018, 110182113,
    110182143, 110182161, 110182167, 110184104, 110187067, 110188044, 110188254, 110189069,
    110190112, 110190116, 110190136, 110190144, 110190168, 110194995, 110197077, 110197230,
    110199230, 110201033, 110206114, 110206154, 110206178, 110206186, 110209089, 110211091,
    110212254, 110213093, 110218058, 110221101, 110227011, 110230111, 110230113, 110230115,
    110230117, 110230161, 110230163, 110230195, 110230227, 110240000, 110242082, 110254116,
    110254176, 110254224, 110990254, 110990992, 110990994, 110990996, 110991082, 110991084,
    110991086, 110997237, 111001241, 111011991, 111012228, 111015019, 111015091, 111016216,
    111023215, 111027991, 111031033, 111031093, 111031991, 111034202, 111035195, 111035991,
    111039042, 111039096, 111039991, 111042039, 111045189, 111048039, 111051991, 111052172,
    111054039, 111054174, 111056023, 111056176, 111059015, 111060039, 111062055, 111063991,
    111065031, 111065063, 111067163, 111068999, 111069031, 111069063, 111071072, 111071102,
    111071991, 111072039, 111072071, 111073031, 111073063, 111073153, 111075235, 111075991,
    111076055, 111076071, 111076244, 111077063, 111078150, 111080071, 111081031, 111081063,
    111081225, 111082202, 111084071, 111084204, 111085031, 111085063, 111086206, 111087106,
    111087110, 111088071, 111088087, 111089031, 111089063, 111091187, 111092071, 111092087,
    111092132, 111093031, 111093063, 111093173, 111096071, 111096087, 111096168, 111096999,
    111097031, 111097063, 111097095, 111098122, 111099991, 111100071, 111100087, 111101031,
    111101063, 111101095, 111101149, 111102142, 111104055, 111104071, 111104087, 111104103,
    111105031, 111105063, 111105095, 111106130, 111108039, 111108071, 111108087, 111108103,
    111109031, 111109063, 111109095, 111110134, 111110230, 111111992, 111112072, 111112088,
    111112104, 111113033, 111113065, 111113097, 111113994, 111114042, 111115019, 111115996,
    111116092, 111116108, 111117101, 111118119, 111118135, 111118151, 111119112, 111119116,
    111120080, 111121073, 111121105, 111124100, 111125109, 111126054, 111127113, 111127117,
    111127121, 111127125, 111128088, 111131035, 111132135, 111132151, 111132183, 111132231,
    111135112, 111135128, 111135130, 111136016, 111137089, 111138018, 111140151, 111140997,
    111143131, 111143139, 111144104, 111145065, 111148108, 111148151, 111148231, 111150183,
    111150231, 111151112, 111151124, 111151128, 111151130, 111152231, 111153105, 111154231,
    111159113, 111159145, 111160040, 111162042, 111163067, 111169089, 111176056, 111177097,
    111183114, 111183144, 111183162, 111183168, 111185105, 111188068, 111189255, 111191113,
    111191117, 111191137, 111191145, 111191169, 111196231, 111198231, 111200231, 111202034,
    111207115, 111207155, 111207179, 111207187, 111210090, 111212092, 111213255, 111231112,
    111231114, 111231116, 111231162, 111241001, 111243083, 111255117, 111255177, 111255225,
    111990230, 111991255, 111991993, 111991995, 111991997, 111992083, 111992085, 111992087,
    111998238, 112002242, 112012992, 112013229, 112016020, 112016092, 112017217, 112024216,
    112028992, 112032034, 112032094, 112035203, 112036196, 112040043, 112040097, 112046032,
    112046190, 112053173, 112055175, 112057177, 112060016, 112064066, 112064074, 112064098,
    112064102, 112064110, 112064992, 112068164, 112072073, 112072103, 112072992, 112073040,
    112073072, 112074154, 112076236, 112076992, 112077056, 112077072, 112077245, 112079151,
    112081072, 112082226, 112083203, 112085072, 112085205, 112086134, 112087207, 112088107,
    112088111, 112089072, 112089088, 112090138, 112092188, 112093072, 112093088, 112093133,
    112094174, 112097072, 112097088, 112097169, 112099123, 112100992, 112101072, 112101088,
    112102150, 112103143, 112105056, 112105072, 112105088, 112105104, 112107131, 112109040,
    112109072, 112109088, 112109104, 112110158, 112111135, 112111231, 112112993, 112113073,
    112113089, 112113105, 112114034, 112114128, 112114995, 112116020, 112116997, 112117093,
    112117109, 112119120, 112119136, 112119152, 112120113, 112120117, 112121081, 112122128,
    112125101, 112126128, 112126160, 112126192, 112129089, 112132144, 112133136, 112133152,
    112133184, 112133232, 112136113, 112136129, 112136131, 112137017, 112140144, 112140208,
    112141152, 112145105, 112146066, 112149109, 112149152, 112149232, 112151184, 112151232,
    112152113, 112152125, 112152129, 112152131, 112153232, 112155232, 112160146, 112161041,
    112163043, 112164208, 112180208, 112184115, 112184145, 112184163, 112184169, 112189069,
    112192114, 112192138, 112192146, 112192170, 112196997, 112197232, 112199232, 112201232,
    112203035, 112208116, 112211091, 112213093, 112229013, 112232113, 112232115, 112232117,
    112232163, 112242002, 112244084, 112991231, 112992994, 112992996, 112992998, 112993082,
    112993084, 112993086, 112993088, 112995235, 112999239, 113003243, 113013993, 113014230,
    113017021, 113017093, 113018218, 113025217, 113029993, 113033035, 113033095, 113033993,
    113036204, 113037197, 113037993, 113041044, 113041098, 113041110, 113041993, 113044041,
    113047033, 113047191, 113050041, 113052172, 113053993, 113054174, 113056041, 113056176,
    113058025, 113058178, 113061017, 113062041, 113064057, 113065067, 113065075, 113065099,
    113065103, 113065111, 113068041, 113069165, 113073049, 113073074, 113073082, 113073090,
    113073102, 113073104, 113073110, 113075155, 113077237, 113078246, 113080152, 113082202,
    113083227, 113084204, 113086206, 113087135, 113088208, 113089049, 113089090, 113089094,
    113089106, 113089108, 113089112, 113091139, 113092041, 113092132, 113093189, 113094134,
    113095175, 113098170, 113099033, 113100124, 113102126, 113102142, 113103151, 113104144,
    113105049, 113105106, 113105110, 113106114, 113106130, 113107033, 113108132, 113110118,
    113110150, 113110182, 113111159, 113112136, 113112232, 113113994, 113114121, 113115129,
    113115996, 113117021, 113118121, 113118137, 113118153, 113120121, 113120137, 113120153,
    113123129, 113126137, 113126153, 113127129, 113127161, 113127193, 113132137, 113132153,
    113132233, 113133145, 113134137, 113134153, 113134185, 113134233, 113137130, 113138018,
    113140153, 113141145, 113141209, 113142153, 113147067, 113148153, 113148169, 113148233,
    113150153, 113150233, 113152185, 113152233, 113153130, 113154233, 113156233, 113161147,
    113162042, 113164185, 113165209, 113181209, 113185116, 113185146, 113185170, 113193115,
    113193139, 113193147, 113193171, 113196233, 113198233, 113200233, 113202233, 113209117,
    113212092, 113233114, 113233116, 113245085, 113993995, 113993997, 113993999, 113994087,
    113994089, 114000240, 114004244, 114014994, 114015231, 114018022, 114018086, 114018094,
    114018110, 114019219, 114026218, 114030994, 114034036, 114034096, 114037205, 114038198,
    114042045, 114042099, 114042111, 114048034, 114048192, 114057177, 114059179, 114062018,
    114065058, 114066994, 114068066, 114068994, 114069042, 114070166, 114072066, 114074075,
    114074994, 114075074, 114076066, 114076156, 114076994, 114077074, 114078238, 114079074,
    114079247, 114080066, 114081074, 114083074, 114084066, 114084228, 114084994, 114085074,
    114087074, 114087207, 114088066, 114089074, 114089209, 114091074, 114091090, 114092066,
    114092140, 114092994, 114093042, 114093058, 114093074, 114093090, 114094190, 114095074,
    114095090, 114095135, 114096066, 114096176, 114097074, 114097090, 114099074, 114099090,
    114099171, 114100002, 114100034, 114100066, 114100098, 114101010, 114101074, 114101090,
    114103074, 114103090, 114104066, 114104098, 114105074, 114105090, 114107074, 114107090,
    114107106, 114108034, 114108066, 114108098, 114108994, 114109074, 114109090, 114109106,
    114111074, 114111090, 114111106, 114112066, 114112098, 114113074, 114113090, 114113106,
    114114995, 114115075, 114115091, 114115107, 114116036, 114116068, 114116100, 114116997,
    114117045, 114117077, 114117093, 114117109, 114118022, 114118999, 114119095, 114119111,
    114120104, 114121001, 114121065, 114121081, 114121097, 114121113, 114122115, 114122117,
    114122119, 114122121, 114123083, 114124076, 114124108, 114125085, 114125101, 114127103,
    114127138, 114127154, 114128048, 114128112, 114128130, 114129057, 114129089, 114129105,
    114130116, 114131091, 114131107, 114133109, 114133138, 114134038, 114135015, 114135111,
    114135138, 114135154, 114136088, 114137017, 114137097, 114137113, 114138115, 114138117,
    114138125, 114138131, 114139019, 114140092, 114140162, 114140194, 114141101, 114141154,
    114142146, 114143103, 114143154, 114144000, 114145105, 114147075, 114147107, 114148162,
    114149109, 114149154, 114149234, 114149990, 114151111, 114151154, 114151234, 114153081,
    114153113, 114153234, 114154115, 114154117, 114154131, 114154147, 114155234, 114156162,
    114156194, 114157234, 114162116, 114163043, 114165045, 114165186, 114166210, 114168088,
    114172194, 114177105, 114179059, 114180100, 114182022, 114182210, 114186117, 114186147,
    114186171, 114188108, 114188194, 114191071, 114192048, 114193073, 114194116, 114194120,
    114195075, 114197234, 114198999, 114199234, 114201081, 114201234, 114203234, 114205037,
    114210118, 114213093, 114215095, 114217097, 114222062, 114225105, 114231015, 114234115,
    114234117, 114234119, 114234121, 114234209, 114234211, 114244004, 114246086, 114994996,
    114994998, 114995000, 114995086, 114995088, 114995090, 115001241, 115005245, 115015995,
    115016232, 115019023, 115019095, 115020220, 115027219, 115031995, 115035037, 115035097,
    115035995, 115038206, 115039199, 115039995, 115043046, 115043100, 115043995, 115046043,
    115049035, 115049193, 115052043, 115055995, 115058043, 115058178, 115060027, 115060180,
    115063019, 115064043, 115065035, 115067995, 115069035, 115069067, 115071167, 115073003,
    115073035, 115073067, 115075076, 115075106, 115075995, 115076043, 115076075, 115077035,
    115077067, 115077157, 115079239, 115079995, 115080059, 115080075, 115080248, 115081067,
    115082154, 115084075, 115085035, 115085067, 115085229, 115086206, 115088075, 115088208,
    115089035, 115089067, 115090210, 115091110, 115091114, 115092075, 115092091, 115093035,
    115093067, 115093141, 115095191, 115096075, 115096091, 115096136, 115097035, 115097067,
    115097177, 115100075, 115100091, 115100172, 115101003, 115101035, 115101067, 115101099,
    115102126, 115103995, 115104075, 115104091, 115105035, 115105067, 115105099, 115106146,
    115108059, 115108075, 115108091, 115108107, 115109035, 115109067, 115109099, 115110134,
    115112043, 115112075, 115112091, 115112107, 115113035, 115113067, 115113099, 115115996,
    115116076, 115116092, 115116108, 115117037, 115117069, 115117101, 115117998, 115118046,
    115119023, 115120000, 115120096, 115120112, 115121105, 115122123, 115122139, 115122155,
    115123116, 115123120, 115124084, 115125077, 115125109, 115126139, 115126155, 115128104,
    115128139, 115128155, 115129113, 115129131, 115130058, 115131117, 115132139, 115134139,
    115136016, 115136112, 115136139, 115136155, 115137089, 115139116, 115140155, 115141093,
    115141163, 115141195, 115142022, 115142155, 115143147, 115144104, 115144155, 115145001,
    115148108, 115148155, 115148235, 115149163, 115150155, 115150235, 115152112, 115152155,
    115152235, 115154082, 115154235, 115155116, 115156235, 115157163, 115157195, 115158235,
    115163117, 115164044, 115164171, 115166046, 115166187, 115167211, 115169089, 115173195,
    115180235, 115181101, 115183211, 115187118, 115189109, 115189195, 115192072, 115194074,
    115195117, 115195121, 115196235, 115198235, 115200000, 115200235, 115202235, 115204235,
    115206038, 115211119, 115214094, 115216096, 115232016, 115235116, 115235118, 115235120,
    115235210, 115245005, 115247087, 115994234, 115995997, 115995999, 115996001, 115996087,
    115996089, 115996091, 116002242, 116006246, 116016996, 116017233, 116020024, 116020096,
    116021221, 116028220, 116036038, 116036098, 116039207, 116040200, 116044047, 116044101,
    116050036, 116050194, 116055175, 116057177, 116059179, 116061181, 116064020, 116065044,
    116068070, 116068078, 116068102, 116068106, 116068114, 116068996, 116072168, 116076077,
    116076107, 116076996, 116077044, 116077076, 116078158, 116080240, 116080996, 116081060,
    116081076, 116081249, 116083155, 116085076, 116086230, 116087207, 116089076, 116089209,
    116091211, 116092111, 116092115, 116093076, 116093092, 116094142, 116096192, 116097076,
    116097092, 116097137, 116098178, 116101076, 116101092, 116101173, 116102150, 116103127,
    116104996, 116105076, 116105092, 116106154, 116107147, 116109060, 116109076, 116109092,
    116109108, 116111135, 116113044, 116113076, 116113092, 116113108, 116116997, 116117077,
    116117093, 116117109, 116118038, 116118132, 116118999, 116120024, 116121001, 116121097,
    116121113, 116123124, 116124117, 116124121, 116125085, 116129105, 116131059, 116132130,
    116133140, 116137017, 116137113, 116140117, 116140125, 116140127, 116140129, 116140131,
    116140135, 116140137, 116140139, 116142196, 116145105, 116148144, 116149109, 116153113,
    116155083, 116156117, 116156125, 116156129, 116156131, 116156137, 116156139, 116156145,
    116156147, 116156155, 116157236, 116159236, 116164138, 116164146, 116164150, 116164154,
    116165045, 116174196, 116181236, 116188119, 116188167, 116188173, 116188179, 116193073,
    116195075, 116196118, 116196150, 116196154, 116196194, 116201001, 116205236, 116212120,
    116212160, 116212184, 116212192, 116215095, 116217097, 116233017, 116236117, 116236119,
    116236121, 116236155, 116236167, 116236169, 116236171, 116236201, 116236203, 116236211,
    116236233, 116236235, 116246006, 116248088, 116995235, 116996998, 116997000, 116997002,
    116997086, 116997088, 116997090, 116997092, 116999239, 117003243, 117007247, 117017997,
    117018234, 117021025, 117021097, 117022222, 117029221, 117033997, 117037039, 117037099,
    117037997, 117040208, 117041201, 117041997, 117045048, 117045102, 117045114, 117045997,
    117048045, 117051037, 117051195, 117052172, 117054045, 117056176, 117057997, 117058178,
    117060045, 117060180, 117062029, 117062182, 117065021, 117068061, 117069071, 117069079,
    117069103, 117069107, 117069115, 117072045, 117073169, 117077053, 117077078, 117077086,
    117077094, 117077106, 117077108, 117077114, 117078150, 117079159, 117081241, 117082250,
    117084156, 117086206, 117087231, 117088208, 117090210, 117092212, 117093053, 117093094,
    117093098, 117093110, 117093112, 117093116, 117094134, 117095143, 117096045, 117097193,
    117098138, 117099179, 117102174, 117103037, 117103151, 117104128, 117106130, 117106146,
    117107155, 117108148, 117109053, 117109110, 117109114, 117110118, 117110134, 117111037,
    117112136, 117114122, 117116140, 117116156, 117116236, 117117998, 117118125, 117119133,
    117120000, 117121025, 117122125, 117124125, 117131051, 117132141, 117133131, 117134141,
    117141128, 117141130, 117141136, 117141138, 117142022, 117143197, 117149145, 117156189,
    117156237, 117157130, 117157138, 117157146, 117158237, 117160237, 117165139, 117165147,
    117165151, 117165155, 117166046, 117175197, 117180237, 117182237, 117189120, 117189168,
    117189174, 117194074, 117197119, 117197151, 117197155, 117197195, 117204237, 117206237,
    117213121, 117213161, 117213185, 117213193, 117216096, 117237118, 117237120, 117237168,
    117237170, 117237202, 117237234, 117249089, 117997999, 117998001, 117998003, 117998091,
    117998093, 118004244, 118008248, 118018998, 118019235, 118022026, 118022090, 118022098,
    118022114, 118023223, 118030222, 118038040, 118038100, 118041209, 118042202, 118046049,
    118046103, 118046115, 118052038, 118052196, 118061181, 118063183, 118064998, 118069062,
    118070998, 118072070, 118072998, 118073046, 118074170, 118076070, 118078079, 118078998,
    118079078, 118080070, 118080160, 118080998, 118081078, 118082242, 118083078, 118083251,
    118084070, 118085078, 118085157, 118087078, 118088070, 118088232, 118088998, 118089078,
    118091078, 118091211, 118092070, 118093078, 118093213, 118095078, 118095094, 118096070,
    118096998, 118097046, 118097062, 118097078, 118097094, 118098194, 118099078, 118099094,
    118100070, 118100180, 118101078, 118101094, 118103078, 118103094, 118103175, 118104006,
    118104038, 118104070, 118104102, 118105014, 118105078, 118105094, 118107078, 118107094,
    118108070, 118108102, 118108156, 118109078, 118109094, 118111078, 118111094, 118111110,
    118112038, 118112070, 118112102, 118112998, 118113078, 118113094, 118113110, 118115078,
    118115094, 118115110, 118116070, 118116102, 118117078, 118117094, 118117110, 118118999,
    118119079, 118119095, 118119111, 118120040, 118120072, 118120104, 118121001, 118121049,
    118121081, 118121097, 118121113, 118122026, 118123003, 118123099, 118123115, 118124108,
    118125005, 118125069, 118125085, 118125101, 118125117, 118126119, 118126121, 118126123,
    118126125, 118127087, 118128080, 118128112, 118129089, 118129105, 118130098, 118131091,
    118131107, 118132116, 118132134, 118132166, 118132198, 118133061, 118134120, 118134124,
    118134128, 118135095, 118136056, 118137097, 118137113, 118138042, 118139019, 118139083,
    118139099, 118139115, 118141117, 118142119, 118142121, 118142125, 118142129, 118142131,
    118142135, 118142137, 118142139, 118143023, 118144096, 118145025, 118145105, 118145986,
    118147107, 118148004, 118150130, 118150138, 118150146, 118151111, 118152072, 118152985,
    118153113, 118153994, 118155035, 118155115, 118157085, 118157117, 118157190, 118157238,
    118158119, 118158121, 118158131, 118158135, 118158137, 118158139, 118158147, 118159238,
    118160112, 118161238, 118166120, 118166152, 118167047, 118169049, 118170074, 118171051,
    118174139, 118176096, 118183063, 118184104, 118185065, 118186026, 118190121, 118190151,
    118190169, 118190175, 118192112, 118195075, 118196052, 118197077, 118198120, 118198124,
    118198144, 118198152, 118198176, 118203003, 118205085, 118205238, 118207238, 118209041,
    118214122, 118214162, 118214186, 118214194, 118217097, 118219099, 118221101, 118229109,
    118235019, 118238119, 118238121, 118238123, 118238125, 118238169, 118238171, 118238203,
    118238235, 118248008, 118250090, 118999000, 118999002, 118999004, 118999090, 118999092,
    118999094, 119005245, 119009249, 119019999, 119020236, 119023027, 119023099, 119024224,
    119031223, 119035999, 119039041, 119039101, 119039999, 119042210, 119043203, 119043999,
    119047050, 119047104, 119047999, 119050047, 119053039, 119053197, 119056047, 119059999,
    119060180, 119062047, 119062182, 119064031, 119064184, 119065039, 119067023, 119068047,
    119069039, 119071999, 119073039, 119073071, 119075171, 119077007, 119077039, 119077071,
    119079080, 119079110, 119079999, 119080047, 119080079, 119081039, 119081071, 119081161,
    119083243, 119083999, 119084063, 119084079, 119084252, 119085071, 119086158, 119088079,
    119089039, 119089071, 119089233, 119090210, 119092079, 119092212, 119093039, 119093071,
    119094214, 119095114, 119095118, 119096079, 119096095, 119097039, 119097071, 119099195,
    119100079, 119100095, 119100140, 119101039, 119101071, 119101181, 119104079, 119104095,
    119104176, 119105007, 119105039, 119105071, 119105103, 119107999, 119108079, 119108095,
    119108132, 119109039, 119109071, 119109103, 119109157, 119110150, 119112063, 119112079,
    119112095, 119112111, 119113039, 119113071, 119113103, 119114138, 119116047, 119116079,
    119116095, 119116111, 119117039, 119117071, 119117103, 119118142, 119118238, 119120000,
    119120080, 119120096, 119120112, 119121041, 119121073, 119121105, 119122002, 119122050,
    119123027, 119124004, 119124100, 119124116, 119125109, 119126127, 119126143, 119126159,
    119127120, 119127124, 119128088, 119129081, 119129113, 119130106, 119131099, 119132143,
    119132159, 119133117, 119133135, 119133167, 119133199, 119134062, 119135121, 119135125,
    119135129, 119136096, 119139043, 119140143, 119140159, 119140191, 119140239, 119143120,
    119143130, 119143136, 119143138, 119144024, 119145097, 119146026, 119146987, 119148159,
    119149005, 119151131, 119151139, 119151147, 119152112, 119153073, 119153986, 119156116,
    119156159, 119156239, 119158191, 119158239, 119159120, 119159136, 119159138, 119160239,
    119161113, 119162239, 119167121, 119167153, 119168048, 119170050, 119171075, 119177097,
    119184064, 119185105, 119191122, 119191152, 119191170, 119191176, 119193113, 119196076,
    119199121, 119199125, 119199145, 119199153, 119199177, 119204239, 119206239, 119208239,
    119210042, 119215123, 119215163, 119215187, 119215195, 119218098, 119220100, 119239120,
    119239122, 119239124, 119239170, 119249009, 119251091, 119998238, 120000001, 120000003,
    120000005, 120000091, 120000093, 120000095, 120006246, 120010250, 120021000, 120021237,
    120024028, 120024100, 120025225, 120032224, 120040042, 120040102, 120043211, 120044204,
    120048051, 120048105, 120054040, 120054198, 120061181, 120063183, 120065032, 120065185,
    120068024, 120069048, 120072074, 120072082, 120072106, 120072110, 120072118, 120073000,
    120076172, 120080081, 120080111, 120081000, 120081048, 120081080, 120082162, 120084244,
    120085000, 120085064, 120085080, 120085253, 120087159, 120089080, 120090234, 120091211,
    120093080, 120093213, 120094142, 120095215, 120096115, 120096119, 120097080, 120097096,
    120098146, 120100196, 120101080, 120101096, 120101141, 120102182, 120105080, 120105096,
    120105177, 120109000, 120109080, 120109096, 120109133, 120110158, 120111151, 120113064,
    120113080, 120113096, 120113112, 120115139, 120117048, 120117080, 120117096, 120117112,
    120118166, 120119143, 120119239, 120121001, 120121081, 120121097, 120121113, 120122042,
    120122136, 120123003, 120124028, 120125005, 120125101, 120125117, 120127128, 120127144,
    120127160, 120128121, 120128125, 120129089, 120130082, 120131107, 120133144, 120133160,
    120134136, 120134168, 120134200, 120136130, 120137097, 120140152, 120141144, 120141160,
    120141192, 120141240, 120144121, 120144131, 120144137, 120144139, 120145025, 120148152,
    120148216, 120149160, 120153113, 120154074, 120154987, 120157117, 120157160, 120157240,
    120159192, 120159240, 120160121, 120160137, 120160139, 120161240, 120163240, 120168154,
    120169049, 120171051, 120172216, 120185065, 120188216, 120192123, 120192153, 120192171,
    120192177, 120197077, 120200122, 120200146, 120200154, 120200178, 120205005, 120205240,
    120207240, 120209240, 120211043, 120216124, 120219099, 120221101, 120237021, 120240121,
    120240123, 120240125, 120240171, 120250010, 120252092, 120999239, 121001002, 121001004,
    121001006, 121001090, 121001092, 121001094, 121001096, 121003243, 121007247, 121011251,
    121022001, 121022238, 121025029, 121025101, 121026226, 121033225, 121038001, 121041043,
    121041103, 121042001, 121044033, 121044212, 121045205, 121046001, 121049052, 121049106,
    121049118, 121050001, 121052049, 121055041, 121055199, 121058049, 121060180, 121062001,
    121062182, 121064049, 121064184, 121065057, 121066186, 121069025, 121073075, 121073083,
    121073107, 121073111, 121073119, 121076049, 121077173, 121081057, 121081082, 121081090,
    121081098, 121081110, 121081112, 121081118, 121083163, 121085245, 121086254, 121088160,
    121090210, 121091235, 121092212, 121094214, 121095143, 121096216, 121097057, 121097098,
    121097102, 121097114, 121097116, 121097120, 121099147, 121100049, 121100140, 121101197,
    121102142, 121103183, 121106178, 121107041, 121108132, 121110134, 121110150, 121111159,
    121112152, 121113057, 121113114, 121113118, 121114122, 121114138, 121115041, 121116140,
    121118126, 121118158, 121118190, 121119167, 121120144, 121120240, 121122002, 121122129,
    121123137, 121124004, 121125029, 121126129, 121126145, 121126161, 121128129, 121128145,
    121128161, 121131083, 121132145, 121132161, 121134145, 121134161, 121135137, 121135169,
    121135201, 121137131, 121140145, 121140161, 121140241, 121141153, 121142145, 121142161,
    121142193, 121142241, 121145138, 121146026, 121148161, 121149153, 121149217, 121150161,
    121155075, 121156161, 121156177, 121156241, 121158161, 121158241, 121160193, 121160241,
    121161138, 121162241, 121164241, 121169155, 121170050, 121172193, 121173217, 121189217,
    121193124, 121193154, 121193178, 121201123, 121201147, 121201155, 121201179, 121204241,
    121206241, 121208241, 121210241, 121217125, 121220100, 121241122, 121241124, 121253093,
    122002003, 122002005, 122002007, 122002095, 122002097, 122008248, 122012252, 122023002,
    122023239, 122026030, 122026094, 122026102, 122026118, 122027227, 122034226, 122042044,
    122042104, 122045213, 122046206, 122050053, 122050107, 122050119, 122056042, 122056200,
    122065050, 122065185, 122067187, 122069002, 122073066, 122075002, 122076074, 122077002,
    122077050, 122078174, 122080074, 122082083, 122083002, 122083082, 122084074, 122084164,
    122085002, 122085082, 122086246, 122087066, 122087082, 122087255, 122088074, 122089082,
    122091082, 122092074, 122092236, 122093002, 122093082, 122095082, 122095215, 122096074,
    122097082, 122097217, 122099082, 122099098, 122100074, 122100148, 122101002, 122101050,
    122101066, 122101082, 122101098, 122102198, 122103082, 122103098, 122103143, 122104074,
    122104184, 122105082, 122105098, 122107082, 122107098, 122107179, 122108010, 122108042,
    122108074, 122108106, 122109018, 122109082, 122109098, 122111082, 122111098, 122112074,
    122112106, 122113082, 122113098, 122115066, 122115082, 122115098, 122115114, 122116042,
    122116074, 122116106, 122117002, 122117082, 122117098, 122117114, 122119082, 122119098,
    122119114, 122120074, 122120106, 122121082, 122121098, 122121114, 122123003, 122123083,
    122123099, 122123115, 122124044, 122124076, 122124108, 122125005, 122125053, 122125085,
    122125101, 122125117, 122126030, 122127007, 122127103, 122127119, 122127130, 122128112,
    122129009, 122129073, 122129089, 122129105, 122129121, 122130066, 122130125, 122131011,
    122131059, 122131091, 122131107, 122132138, 122133146, 122133162, 122135111, 122135146,
    122135162, 122136056, 122136120, 122136138, 122137065, 122137097, 122137113, 122138124,
    122139099, 122139115, 122141117, 122141146, 122142046, 122143023, 122143119, 122143146,
    122143162, 122144096, 122145025, 122145105, 122145121, 122146123, 122146125, 122146131,
    122146139, 122147027, 122148100, 122148170, 122148202, 122149109, 122149162, 122149990,
    122150154, 122151111, 122151162, 122152008, 122153113, 122155083, 122155115, 122156170,
    122156989, 122157117, 122157162, 122157242, 122157998, 122159119, 122159162, 122159242,
    122161089, 122161121, 122161242, 122162123, 122162125, 122162131, 122162139, 122162155,
    122163242, 122164170, 122164202, 122165242, 122170124, 122171051, 122173053, 122173194,
    122174218, 122176096, 122180202, 122185113, 122187067, 122188108, 122190030, 122190218,
    122194125, 122194155, 122194179, 122196116, 122196202, 122199079, 122200056, 122201081,
    122202124, 122202128, 122203083, 122205242, 122207007, 122207242, 122209089, 122209242,
    122211242, 122213045, 122218126, 122221101, 122223103, 122225105, 122233113, 122239023,
    122242123, 122242125, 122242127, 122242129, 122242131, 122242217, 122242219, 122252012,
    122254094, 123003004, 123003006, 123003008, 123003094, 123003096, 123003098, 123009249,
    123013253, 123024003, 123024240, 123027031, 123027103, 123028228, 123035227, 123040003,
    123043045, 123043105, 123044003, 123046035, 123046214, 123047207, 123048003, 123051054,
    123051108, 123052003, 123054051, 123057043, 123057201, 123060051, 123064003, 123065043,
    123066186, 123068035, 123068188, 123069043, 123071027, 123072051, 123073043, 123076003,
    123077043, 123077075, 123079175, 123081011, 123081043, 123081075, 123083084, 123083114,
    123084003, 123084051, 123084083, 123085043, 123085075, 123085165, 123087247, 123088003,
    123088067, 123088083, 123089075, 123090162, 123092083, 123093043, 123093075, 123093237,
    123094214, 123096083, 123096216, 123097043, 123097075, 123098218, 123099118, 123099122,
    123100083, 123100099, 123101043, 123101075, 123101149, 123103199, 123104083, 123104099,
    123104144, 123105043, 123105075, 123105185, 123108083, 123108099, 123108180, 123109011,
    123109043, 123109075, 123109107, 123110134, 123112003, 123112083, 123112099, 123113043,
    123113075, 123113107, 123114154, 123116067, 123116083, 123116099, 123116115, 123117043,
    123117075, 123117107, 123118142, 123120051, 123120083, 123120099, 123120115, 123121043,
    123121075, 123121107, 123124004, 123124084, 123124100, 123124116, 123125045, 123125077,
    123125109, 123126006, 123126054, 123126131, 123127031, 123128008, 123128104, 123128120,
    123128131, 123129113, 123130090, 123131067, 123132147, 123132163, 123133139, 123134147,
    123134163, 123136112, 123136147, 123136163, 123137121, 123137139, 123138066, 123139125,
    123140147, 123142147, 123144024, 123144120, 123144147, 123144163, 123145097, 123147124,
    123148163, 123149101, 123149171, 123149203, 123150030, 123150163, 123150991, 123151155,
    123152112, 123152163, 123153009, 123156116, 123156163, 123156243, 123157171, 123157990,
    123158163, 123158243, 123160120, 123160163, 123160243, 123162090, 123162243, 123163124,
    123164243, 123165171, 123165203, 123166243, 123171125, 123172052, 123172179, 123174054,
    123174195, 123175219, 123177097, 123181203, 123188243, 123189109, 123191219, 123195126,
    123197117, 123197203, 123200080, 123202082, 123203125, 123203129, 123204243, 123206243,
    123208008, 123208243, 123210243, 123212243, 123214046, 123219127, 123222102, 123224104,
    123240024, 123243124, 123243126, 123243128, 123243130, 123243218, 123253013, 123255095,
    124002242, 124004005, 124004007, 124004009, 124004095, 124004097, 124004099, 124010250,
    124014254, 124025004, 124025241, 124028032, 124028104, 124029229, 124036228, 124044046,
    124044106, 124047215, 124048208, 124052055, 124052109, 124058044, 124058202, 124063183,
    124065004, 124067187, 124069036, 124069189, 124072028, 124073052, 124076078, 124076086,
    124076110, 124076114, 124076122, 124077004, 124080176, 124084085, 124084115, 124085004,
    124085052, 124085084, 124086166, 124088248, 124089004, 124089068, 124089084, 124091163,
    124093084, 124094238, 124095215, 124097084, 124097217, 124099219, 124100119, 124100123,
    124101084, 124101100, 124102150, 124104200, 124105084, 124105100, 124105145, 124106186,
    124109084, 124109100, 124109181, 124110158, 124111135, 124113004, 124113084, 124113100,
    124114162, 124115155, 124117068, 124117084, 124117100, 124117116, 124119143, 124121052,
    124121084, 124121100, 124121116, 124125005, 124125085, 124125101, 124125117, 124126046,
    124126140, 124127007, 124128032, 124129009, 124129105, 124129121, 124131011, 124131091,
    124132125, 124132129, 124132131, 124137113, 124139067, 124140130, 124140138, 124141148,
    124145025, 124145121, 124148125, 124148131, 124148135, 124148137, 124148139, 124148143,
    124148145, 124148147, 124150204, 124153113, 124156152, 124157117, 124158991, 124161121,
    124163091, 124164125, 124164137, 124164139, 124164145, 124164147, 124164153, 124164155,
    124164163, 124165244, 124167244, 124172146, 124172154, 124172158, 124172162, 124173053,
    124182204, 124189244, 124196127, 124196175, 124196181, 124196187, 124201081, 124203083,
    124204126, 124204130, 124204158, 124204162, 124204202, 124209009, 124213244, 124220128,
    124220168, 124220192, 124220200, 124223103, 124225105, 124241025, 124244125, 124244127,
    124244129, 124244131, 124244163, 124244175, 124244177, 124244179, 124244209, 124244211,
    124244219, 124244241, 124244243, 124254014, 125003243, 125005006, 125005008, 125005010,
    125005094, 125005096, 125005098, 125005100, 125007247, 125011251, 125015255, 125026005,
    125026242, 125029033, 125029105, 125030230, 125037229, 125042005, 125045047, 125045107,
    125046005, 125048037, 125048216, 125049209, 125050005, 125053056, 125053110, 125053122,
    125054005, 125056053, 125059045, 125059203, 125060180, 125062053, 125064184, 125066186,
    125068053, 125068188, 125069061, 125070190, 125073029, 125077079, 125077087, 125077111,
    125077115, 125077123, 125080053, 125081177, 125085061, 125085086, 125085094, 125085102,
    125085114, 125085116, 125085122, 125086158, 125087167, 125089249, 125092132, 125092164,
    125094214, 125095239, 125096216, 125098218, 125100220, 125101061, 125101102, 125101106,
    125101118, 125101120, 125101124, 125102142, 125103151, 125104053, 125105201, 125106146,
    125107187, 125110182, 125111045, 125111159, 125112136, 125114138, 125114154, 125115163,
    125116156, 125117061, 125117118, 125117122, 125118126, 125118142, 125119045, 125120144,
    125122130, 125124132, 125124148, 125124164, 125124244, 125126006, 125126133, 125127141,
    125128008, 125130106, 125132133, 125132149, 125132165, 125132181, 125133130, 125139059,
    125140149, 125141131, 125141139, 125142149, 125149136, 125149138, 125149144, 125149146,
    125150030, 125151205, 125157153, 125164197, 125164245, 125165138, 125165146, 125165154,
    125166245, 125168245, 125173147, 125173155, 125173159, 125173163, 125174054, 125183205,
    125188245, 125190245, 125197128, 125197176, 125197182, 125202082, 125205127, 125205131,
    125205159, 125205163, 125205203, 125212245, 125214245, 125221129, 125221169, 125221193,
    125221201, 125224104, 125245126, 125245128, 125245130, 125245176, 125245178, 125245210,
    125245242, 126006007, 126006009, 126006011, 126006099, 126006101, 126012252, 126027006,
    126027243, 126030034, 126030098, 126030106, 126030122, 126031231, 126038230, 126046048,
    126046108, 126049217, 126050210, 126054057, 126054111, 126054123, 126060046, 126060204,
    126069054, 126069189, 126071191, 126073006, 126077070, 126079006, 126080078, 126081006,
    126081054, 126082178, 126084078, 126086087, 126087006, 126087086, 126088078, 126088168,
    126089006, 126089086, 126090250, 126091070, 126091086, 126092078, 126093086, 126093165,
    126095086, 126096078, 126096240, 126097006, 126097086, 126099086, 126099219, 126100078,
    126101086, 126101221, 126103086, 126103102, 126104078, 126105006, 126105054, 126105070,
    126105086, 126105102, 126106202, 126107086, 126107102, 126108078, 126108188, 126109086,
    126109102, 126111086, 126111102, 126111183, 126112014, 126112046, 126112078, 126112110,
    126113022, 126113086, 126113102, 126115086, 126115102, 126116078, 126116110, 126116164,
    126117086, 126117102, 126119070, 126119086, 126119102, 126119118, 126120046, 126120078,
    126120110, 126121006, 126121086, 126121102, 126121118, 126123086, 126123102, 126123118,
    126124078, 126124110, 126125086, 126125102, 126125118, 126127007, 126127087, 126127103,
    126127119, 126128048, 126128080, 126128112, 126129009, 126129057, 126129089, 126129105,
    126129121, 126130034, 126130098, 126131011, 126131091, 126131107, 126131123, 126131988,
    126133125, 126133134, 126133150, 126133166, 126134127, 126134129, 126134131, 126135095,
    126136088, 126136120, 126137097, 126137113, 126138106, 126139099, 126139115, 126140124,
    126140142, 126140174, 126140206, 126142128, 126142136, 126143103, 126144064, 126145105,
    126145121, 126146050, 126147027, 126147091, 126147107, 126147123, 126149125, 126150127,
    126150129, 126150131, 126150137, 126150139, 126150143, 126150145, 126150147, 126151031,
    126152104, 126153033, 126153113, 126153994, 126155115, 126156012, 126158130, 126158138,
    126158146, 126158154, 126159119, 126160080, 126160993, 126161121, 126162002, 126163043,
    126163123, 126165093, 126165125, 126165198, 126165246, 126166127, 126166129, 126166131,
    126166139, 126166143, 126166145, 126166147, 126166155, 126167246, 126168120, 126169246,
    126174128, 126174160, 126175055, 126177057, 126178082, 126179059, 126182147, 126184104,
    126191071, 126192112, 126193073, 126194034, 126198129, 126198159, 126198177, 126198183,
    126200120, 126203083, 126204060, 126205085, 126206128, 126206152, 126206160, 126206184,
    126211011, 126213093, 126213246, 126215246, 126217049, 126222130, 126222170, 126222194,
    126222202, 126225105, 126227107, 126227988, 126229109, 126237117, 126243027, 126246127,
    126246129, 126246131, 126246177, 126246179, 126246211, 126246243, 127007008, 127007010,
    127007012, 127007098, 127007100, 127007102, 127013253, 127028007, 127028244, 127031035,
    127031107, 127032232, 127039231, 127044007, 127047049, 127047109, 127048007, 127050039,
    127050218, 127051211, 127052007, 127055058, 127055112, 127056007, 127058055, 127061047,
    127061205, 127064055, 127065047, 127068007, 127068188, 127069047, 127070190, 127072039,
    127072192, 127073047, 127075031, 127076055, 127077047, 127080007, 127081047, 127081079,
    127083179, 127085015, 127085047, 127085079, 127087088, 127087118, 127088007, 127088055,
    127088087, 127089047, 127089079, 127089169, 127091251, 127092007, 127092071, 127092087,
    127093079, 127094166, 127096087, 127097047, 127097079, 127097241, 127098218, 127100087,
    127100220, 127101047, 127101079, 127102222, 127103122, 127103126, 127104087, 127104103,
    127105047, 127105079, 127107203, 127108087, 127108103, 127108148, 127109047, 127109079,
    127109189, 127112087, 127112103, 127112184, 127113015, 127113047, 127113079, 127113111,
    127116007, 127116087, 127116103, 127116140, 127117047, 127117079, 127117111, 127117165,
    127118158, 127120071, 127120087, 127120103, 127120119, 127121047, 127121079, 127121111,
    127122146, 127124055, 127124087, 127124103, 127124119, 127125047, 127125079, 127125111,
    127126150, 127126246, 127128008, 127128088, 127128104, 127128120, 127129049, 127129081,
    127129113, 127130010, 127130058, 127130090, 127130106, 127130122, 127131035, 127131099,
    127132135, 127132151, 127132167, 127134135, 127134151, 127134167, 127135128, 127135130,
    127136096, 127137089, 127137121, 127138114, 127139107, 127140151, 127140167, 127141125,
    127141143, 127141175, 127141207, 127143129, 127143137, 127144104, 127145065, 127147051,
    127148151, 127148167, 127148199, 127148247, 127151128, 127151130, 127151138, 127151144,
    127151146, 127152032, 127153105, 127154034, 127154995, 127156167, 127157013, 127159131,
    127159139, 127159147, 127159155, 127160120, 127161081, 127161994, 127164124, 127164167,
    127164247, 127166199, 127166247, 127167128, 127167130, 127167144, 127167146, 127168247,
    127169121, 127170247, 127175129, 127175161, 127176056, 127178058, 127179083, 127185105,
    127192072, 127193113, 127199130, 127199160, 127199178, 127199184, 127201121, 127204084,
    127207129, 127207153, 127207161, 127207185, 127212247, 127214247, 127216247, 127218050,
    127223131, 127223171, 127223195, 127223203, 127224985, 127226106, 127228108, 127247128,
    127247130, 127247178, 128006246, 128008009, 128008011, 128008013, 128008099, 128008101,
    128008103, 128014254, 128029008, 128029245, 128032036, 128032108, 128033233, 128040232,
    128048050, 128048110, 128051219, 128052212, 128056059, 128056113, 128062048, 128062206,
    128065056, 128069008, 128069189, 128071191, 128073040, 128073193, 128076032, 128077056,
    128080082, 128080090, 128080114, 128080118, 128080126, 128081008, 128084180, 128088089,
    128088119, 128089008, 128089056, 128089088, 128090170, 128092252, 128093008, 128093072,
    128093088, 128095167, 128097088, 128098242, 128099219, 128101088, 128101221, 128102150,
    128103223, 128104123, 128104127, 128105088, 128105104, 128106154, 128108204, 128109088,
    128109104, 128109149, 128110190, 128113088, 128113104, 128113185, 128117008, 128117088,
    128117104, 128117141, 128118166, 128119159, 128121072, 128121088, 128121104, 128121120,
    128123147, 128125056, 128125088, 128125104, 128125120, 128126174, 128127151, 128127247,
    128129009, 128129089, 128129105, 128129121, 128130050, 128130082, 128130114, 128131011,
    128131059, 128131091, 128131107, 128131123, 128132160, 128133136, 128133152, 128133168,
    128135136, 128135152, 128135168, 128136129, 128136131, 128137097, 128138090, 128139115,
    128141152, 128141168, 128142144, 128142176, 128142208, 128144130, 128144138, 128145105,
    128148160, 128149152, 128149168, 128149200, 128149248, 128152129, 128152131, 128152139,
    128152145, 128152147, 128153033, 128156160, 128156224, 128157168, 128161121, 128162082,
    128162995, 128165125, 128165168, 128165248, 128167200, 128167248, 128168129, 128168131,
    128168145, 128168147, 128169248, 128171248, 128176130, 128176162, 128177057, 128179059,
    128180224, 128193073, 128196224, 128200131, 128200161, 128200179, 128200185, 128205085,
    128208130, 128208154, 128208162, 128208186, 128213013, 128213248, 128215248, 128217248,
    128219051, 128225986, 128227107, 128229109, 128245029, 128248129, 128248131, 128248179,
    128984991, 128985099, 129007247, 129009010, 129009012, 129009014, 129009098, 129009100,
    129009102, 129009104, 129011251, 129015255, 129030009, 129030246, 129033037, 129034234,
    129041233, 129046009, 129049051, 129049111, 129050009, 129052041, 129052220, 129053213,
    129054009, 129057060, 129057114, 129057126, 129058009, 129060057, 129063049, 129063207,
    129068188, 129069033, 129070190, 129072057, 129072192, 129074194, 129077033, 129081083,
    129081091, 129081115, 129081119, 129081127, 129084057, 129085181, 129089090, 129089098,
    129089106, 129089118, 129089120, 129089126, 129091171, 129093033, 129093253, 129096168,
    129098218, 129099243, 129100220, 129101033, 129102222, 129103151, 129104224, 129105106,
    129105110, 129105122, 129105124, 129105128, 129107155, 129108057, 129108132, 129108148,
    129109033, 129109205, 129110150, 129111191, 129114186, 129115049, 129116140, 129117033,
    129118142, 129118158, 129119167, 129120160, 129121122, 129121126, 129122146, 129122985,
    129123049, 129124132, 129124148, 129125033, 129126134, 129126166, 129126198, 129127175,
    129128152, 129128248, 129130010, 129130090, 129130106, 129130122, 129131051, 129131083,
    129131115, 129132137, 129132153, 129132169, 129133161, 129134137, 129134153, 129134169,
    129136137, 129136153, 129136169, 129137130, 129139091, 129140153, 129140169, 129142153,
    129142169, 129143145, 129143177, 129143209, 129145131, 129145139, 129148153, 129148169,
    129148249, 129149161, 129150153, 129150169, 129150201, 129150249, 129153130, 129153146,
    129154034, 129156169, 129157161, 129157225, 129158169, 129163083, 129164169, 129164185,
    129164249, 129166169, 129166249, 129168201, 129168249, 129169130, 129169146, 129170249,
    129172249, 129177131, 129177163, 129178058, 129180201, 129181225, 129197225, 129201162,
    129201186, 129209131, 129209155, 129209163, 129209187, 129212249, 129214249, 129216249,
    129218249, 129226987, 129228108, 129249130, 129985992, 129986100, 130008248, 130010011,
    130010013, 130010015, 130010103, 130010105, 130012252, 130031010, 130031247, 130034038,
    130034102, 130034110, 130034126, 130035235, 130042234, 130050052, 130050112, 130051986,
    130053221, 130054214, 130058061, 130058115, 130058127, 130064050, 130064208, 130065010,
    130065026, 130069189, 130071191, 130073058, 130073193, 130075195, 130077010, 130078174,
    130081074, 130082084, 130082120, 130082128, 130083010, 130084082, 130085010, 130085058,
    130086182, 130088082, 130090091, 130090119, 130090121, 130090127, 130091010, 130091090,
    130092082, 130092172, 130093010, 130093090, 130094254, 130095090, 130096082, 130097090,
    130097169, 130099219, 130100082, 130100244, 130101010, 130101090, 130101221, 130102198,
    130103223, 130104082, 130104152, 130105090, 130105225, 130106107, 130106123, 130106125,
    130106129, 130107106, 130108156, 130108188, 130109010, 130109058, 130109090, 130109106,
    130109133, 130109149, 130110206, 130111106, 130111151, 130112192, 130113106, 130115187,
    130116018, 130116050, 130116114, 130116132, 130116164, 130117026, 130117090, 130117106,
    130117141, 130119143, 130119159, 130120114, 130120168, 130121106, 130121161, 130122127,
    130123122, 130123147, 130123986, 130124050, 130124140, 130125010, 130125122, 130125133,
    130125149, 130126222, 130127135, 130127167, 130127199, 130128176, 130129153, 130129249,
    130131011, 130131091, 130131107, 130131123, 130132146, 130133138, 130133154, 130133170,
    130134162, 130135138, 130135154, 130135170, 130137138, 130137154, 130137170, 130138131,
    130140146, 130140178, 130140210, 130141154, 130141170, 130143154, 130143170, 130144146,
    130144178, 130144210, 130149154, 130149170, 130149250, 130150162, 130151154, 130151170,
    130151202, 130151250, 130154131, 130154147, 130156178, 130156210, 130157170, 130158162,
    130158226, 130159170, 130164178, 130165170, 130165186, 130165250, 130167170, 130167250,
    130169202, 130169250, 130170131, 130170147, 130171250, 130172178, 130172210, 130173250,
    130179059, 130181202, 130182226, 130188210, 130198226, 130202163, 130202187, 130204210,
    130213250, 130215250, 130217250, 130219250, 130227988, 130229109, 130250131, 130986993,
    130987101, 131009249, 131011012, 131011014, 131011016, 131011100, 131011102, 131011104,
    131011106, 131011126, 131013253, 131032248, 131035039, 131035103, 131035111, 131035127,
    131036236, 131043235, 131051053, 131051113, 131053197, 131054222, 131055215, 131059062,
    131059110, 131059116, 131059128, 131060011, 131062059, 131065051, 131065209, 131068059,
    131068188, 131069051, 131070190, 131072192, 131074194, 131076196, 131077051, 131079175,
    131083085, 131083121, 131083129, 131085083, 131087183, 131088987, 131089083, 131091092,
    131091118, 131091120, 131091122, 131091128, 131092091, 131092164, 131093083, 131093173,
    131095255, 131096091, 131097083, 131098170, 131100220, 131101083, 131101245, 131102222,
    131103199, 131104224, 131105083, 131105153, 131106226, 131107108, 131107122, 131107124,
    131107126, 131107130, 131108107, 131108132, 131108148, 131109157, 131109189, 131110134,
    131110150, 131110182, 131111207, 131112107, 131112152, 131113193, 131116140, 131116188,
    131117115, 131117133, 131117165, 131118142, 131118158, 131120144, 131120160, 131121115,
    131121169, 131122146, 131122162, 131123126, 131123128, 131124123, 131124132, 131124148,
    131124987, 131125141, 131126134, 131126150, 131126246, 131127223, 131128136, 131128168,
    131128200, 131129177, 131130154, 131130250, 131132139, 131132155, 131132171, 131133147,
    131134139, 131134155, 131134171, 131135163, 131136139, 131136155, 131136171, 131138139,
    131138155, 131138171, 131140155, 131140171, 131140203, 131141147, 131141179, 131141211,
    131142155, 131142171, 131144155, 131144171, 131145147, 131145179, 131145211, 131148155,
    131148171, 131148251, 131150155, 131150171, 131150251, 131151163, 131152155, 131152171,
    131152203, 131152251, 131156171, 131157179, 131157211, 131158171, 131159163, 131159227,
    131160171, 131164171, 131164203, 131164251, 131165179, 131166171, 131166187, 131166251,
    131168171, 131168251, 131170203, 131170251, 131172251, 131173179, 131173211, 131174251,
    131180187, 131182203, 131183227, 131189211, 131196251, 131199227, 131205211, 131212251,
    131214251, 131216251, 131218251, 131220251, 131987994, 131988102, 131988126, 132012013,
    132012015, 132012017, 132012105, 132012107, 132012996, 132019012, 132025012, 132033249,
    132036040, 132037237, 132040036, 132044236, 132046996, 132052054, 132052114, 132053988,
    132054052, 132055223, 132056036, 132056216, 132058052, 132060063, 132061012, 132062020,
    132062052, 132064036, 132065012, 132066210, 132067012, 132069012, 132069060, 132072036,
    132073012, 132076068, 132077012, 132077044, 132077197, 132080036, 132080996, 132081060,
    132084086, 132084122, 132085012, 132092068, 132093012, 132093028, 132093060, 132093092,
    132094174, 132096036, 132097012, 132097076, 132097092, 132099044, 132101092, 132102246,
    132104036, 132104100, 132105012, 132105060, 132105092, 132106052, 132107092, 132107227,
    132108068, 132109092, 132109108, 132111012, 132111060, 132111076, 132111092, 132112036,
    132112100, 132113012, 132113092, 132113108, 132114052, 132114996, 132115092, 132115108,
    132117012, 132117060, 132117092, 132117108, 132118052, 132118084, 132119028, 132119092,
    132119108, 132120036, 132120100, 132121012, 132121044, 132121092, 132121108, 132122052,
    132123012, 132123060, 132123092, 132123108, 132124068, 132125012, 132125076, 132125092,
    132125108, 132125124, 132126052, 132126084, 132126116, 132127012, 132127092, 132127108,
    132127124, 132128036, 132128100, 132129012, 132129060, 132129092, 132129108, 132129124,
    132130052, 132130084, 132130116, 132131012, 132131092, 132131108, 132131124, 132133013,
    132133093, 132133109, 132133125, 132134054, 132134086, 132134118, 132135015, 132135063,
    132135095, 132135111, 132135127, 132136040, 132136104, 132137017, 132137097, 132137113,
    132137129, 132137994, 132138058, 132138090, 132138122, 132139019, 132139083, 132139099,
    132139115, 132139131, 132140133, 132140135, 132140137, 132140139, 132141101, 132141117,
    132142094, 132142126, 132143103, 132143119, 132144112, 132145041, 132145105, 132145121,
    132146034, 132146066, 132146098, 132146130, 132147027, 132147075, 132147107, 132147123,
    132148134, 132148138, 132148142, 132148146, 132149109, 132149125, 132150070, 132151111,
    132151127, 132152056, 132152120, 132153033, 132153097, 132153113, 132153129, 132154106,
    132155035, 132155115, 132155131, 132156133, 132156135, 132156137, 132156139, 132156143,
    132156145, 132156147, 132156149, 132156151, 132156153, 132156155, 132157037, 132157117,
    132158110, 132159039, 132159119, 132160000, 132160128, 132161041, 132161121, 132162018,
    132162082, 132163123, 132164136, 132164144, 132164152, 132164160, 132165093, 132165125,
    132166086, 132166999, 132167127, 132168008, 132169049, 132169129, 132171051, 132171067,
    132171099, 132171131, 132172133, 132172135, 132172137, 132172139, 132172145, 132172147,
    132172149, 132172151, 132172153, 132172155, 132172161, 132172163, 132172171, 132173252,
    132174126, 132175252, 132176080, 132178098, 132178130, 132180134, 132180138, 132180146,
    132180154, 132180162, 132180166, 132180170, 132181061, 132181125, 132183063, 132184088,
    132185065, 132186106, 132187067, 132188124, 132188139, 132188153, 132190110, 132195123,
    132197077, 132198118, 132199079, 132200040, 132201081, 132201129, 132204135, 132204165,
    132204171, 132204183, 132204189, 132204195, 132206126, 132209089, 132209121, 132210066,
    132210130, 132211091, 132212134, 132212138, 132212158, 132212162, 132212166, 132212170,
    132212190, 132212194, 132212210, 132213093, 132216120, 132217017, 132219099, 132220187,
    132221101, 132221252, 132223055, 132228136, 132228176, 132228200, 132228208, 132229990,
    132231111, 132233113, 132233994, 132235115, 132236044, 132237117, 132240080, 132243123,
    132245125, 132248088, 132249033, 132252133, 132252135, 132252137, 132252139, 132252171,
    132252183, 132252185, 132252187, 132252217, 132252219, 132252227, 132252249, 132252251,
    132988995, 132989103, 133013014, 133013016, 133013018, 133013102, 133013106, 133013108,
    133020013, 133026013, 133034013, 133034250, 133037041, 133038013, 133038238, 133042013,
    133044013, 133045237, 133046013, 133050013, 133053055, 133053115, 133054013, 133056045,
    133056224, 133057217, 133058013, 133061064, 133061118, 133062013, 133064061, 133065037,
    133067053, 133067211, 133068013, 133073037, 133076061, 133076196, 133077069, 133078198,
    133081037, 133085087, 133085123, 133088061, 133093069, 133093094, 133093102, 133095175,
    133097037, 133100172, 133103247, 133105037, 133105101, 133106226, 133108093, 133108228,
    133109069, 133109110, 133109114, 133109132, 133112013, 133112061, 133112077, 133112093,
    133113037, 133113101, 133116093, 133116109, 133118190, 133119053, 133119085, 133120029,
    133120093, 133120109, 133121037, 133121101, 133122013, 133124013, 133124093, 133124109,
    133125069, 133125126, 133125132, 133126093, 133126989, 133127053, 133127085, 133127117,
    133128013, 133128093, 133128109, 133128125, 133129037, 133129101, 133130013, 133130061,
    133130093, 133130109, 133130125, 133131053, 133131085, 133131117, 133132156, 133132252,
    133134014, 133134094, 133134110, 133134126, 133135055, 133135087, 133135119, 133136016,
    133136064, 133136096, 133136112, 133136128, 133137041, 133137105, 133138018, 133138098,
    133138114, 133138130, 133138995, 133139059, 133139091, 133139123, 133140141, 133140157,
    133140173, 133141134, 133141136, 133141138, 133142102, 133143095, 133143127, 133144104,
    133144120, 133145113, 133146042, 133146106, 133146122, 133147035, 133147067, 133147099,
    133147131, 133149135, 133149139, 133149143, 133149147, 133150110, 133151071, 133152112,
    133152128, 133153057, 133153121, 133154034, 133154098, 133154114, 133154130, 133155107,
    133157134, 133157136, 133157138, 133157144, 133157146, 133157150, 133157152, 133157154,
    133158038, 133159111, 133160040, 133160120, 133161001, 133161129, 133162042, 133162122,
    133163019, 133163083, 133165137, 133165145, 133165153, 133165161, 133166126, 133167087,
    133168000, 133168128, 133169009, 133170050, 133170130, 133172100, 133172205, 133172253,
    133173134, 133173136, 133173138, 133173146, 133173150, 133173152, 133173154, 133173162,
    133174253, 133175127, 133176253, 133177081, 133179099, 133179131, 133181135, 133181139,
    133181147, 133181155, 133181163, 133181167, 133181171, 133182062, 133184064, 133185089,
    133186066, 133187107, 133189125, 133189154, 133191111, 133198078, 133199119, 133200080,
    133201041, 133202130, 133205136, 133205166, 133205184, 133205190, 133207127, 133210090,
    133211067, 133211131, 133212092, 133213135, 133213139, 133213159, 133213163, 133213167,
    133213171, 133213191, 133213195, 133213211, 133217121, 133218018, 133220100, 133220253,
    133222253, 133224056, 133229137, 133229177, 133229201, 133229209, 133230991, 133232112,
    133234114, 133234995, 133236116, 133241081, 133244124, 133249089, 133250034, 133253134,
    133253136, 133253138, 133253184, 133253186, 133253218, 133253250, 133989996, 133990104,
    134014015, 134014017, 134014019, 134014107, 134014109, 134035251, 134038042, 134038106,
    134038114, 134039239, 134046238, 134054056, 134054116, 134055990, 134057225, 134058218,
    134062065, 134062119, 134065062, 134068054, 134068212, 134069014, 134069030, 134077062,
    134077197, 134079199, 134081014, 134085078, 134086132, 134087014, 134088086, 134089014,
    134089062, 134090186, 134092086, 134094095, 134095014, 134095094, 134096086, 134096176,
    134097014, 134097094, 134099078, 134099094, 134100086, 134101094, 134101173, 134103094,
    134104086, 134104248, 134105014, 134105094, 134107094, 134107227, 134108086, 134109094,
    134109229, 134110133, 134111094, 134111110, 134112086, 134113014, 134113062, 134113078,
    134113094, 134113110, 134114210, 134115094, 134115110, 134116086, 134116196, 134117094,
    134117110, 134119094, 134119110, 134119191, 134120022, 134120054, 134120086, 134120118,
    134121030, 134121094, 134121110, 134123094, 134123110, 134124086, 134124118, 134124172,
    134125094, 134125110, 134127078, 134127094, 134127110, 134127126, 134127990, 134128054,
    134128086, 134128118, 134129014, 134129094, 134129110, 134129126, 134130038, 134130102,
    134131014, 134131062, 134131094, 134131110, 134131126, 134132180, 134133157, 134133253,
    134135015, 134135095, 134135111, 134135127, 134136056, 134136088, 134136120, 134137017,
    134137065, 134137097, 134137113, 134137129, 134138042, 134138106, 134139019, 134139099,
    134139115, 134139131, 134139996, 134141142, 134141158, 134141174, 134142135, 134142137,
    134142139, 134143103, 134144096, 134144128, 134145105, 134145121, 134146114, 134147107,
    134147123, 134148150, 134148182, 134148214, 134150136, 134150144, 134151111, 134152072,
    134153113, 134153129, 134154058, 134155035, 134155099, 134155115, 134155131, 134158135,
    134158137, 134158139, 134158145, 134158147, 134158151, 134158153, 134158155, 134159039,
    134160112, 134161041, 134161121, 134162002, 134162130, 134163123, 134164020, 134166138,
    134166146, 134166154, 134166162, 134167127, 134168088, 134169001, 134169129, 134170010,
    134171051, 134171131, 134173101, 134173206, 134173254, 134174135, 134174137, 134174139,
    134174147, 134174151, 134174153, 134174155, 134174163, 134175254, 134176128, 134177254,
    134182136, 134182168, 134183063, 134185065, 134186090, 134187067, 134190155, 134192112,
    134199079, 134200120, 134201081, 134202042, 134203131, 134206137, 134206167, 134206185,
    134206191, 134208128, 134211091, 134212068, 134213093, 134214136, 134214160, 134214168,
    134214192, 134219019, 134221101, 134221254, 134223254, 134225057, 134230138, 134230178,
    134230202, 134230210, 134231992, 134233113, 134235115, 134235996, 134237117, 134245125,
    134251035, 134254135, 134254137, 134254139, 134254185, 134254187, 134254219, 134254251,
    134990997, 134991105, 135015016, 135015018, 135015020, 135015106, 135015108, 135015110,
    135036015, 135036252, 135039043, 135039115, 135040240, 135047239, 135052015, 135055057,
    135055117, 135056015, 135058047, 135058226, 135059219, 135060015, 135063066, 135063120,
    135063132, 135064015, 135065023, 135065055, 135069055, 135069213, 135072063, 135073055,
    135076015, 135076196, 135077055, 135078198, 135080047, 135080200, 135081055, 135083039,
    135084063, 135085055, 135087133, 135088015, 135089055, 135089087, 135091187, 135092991,
    135093023, 135093055, 135093087, 135095096, 135095126, 135095132, 135096015, 135096063,
    135096095, 135097055, 135097087, 135097177, 135100015, 135100079, 135100095, 135101087,
    135102174, 135104095, 135105055, 135105087, 135105249, 135106226, 135108095, 135108228,
    135109055, 135109087, 135110230, 135111134, 135112095, 135112111, 135113055, 135113087,
    135115211, 135116095, 135116111, 135116156, 135117055, 135117087, 135117197, 135120095,
    135120111, 135120192, 135121023, 135121055, 135121087, 135121119, 135124015, 135124095,
    135124111, 135124148, 135125055, 135125087, 135125119, 135125173, 135126166, 135127132,
    135128079, 135128095, 135128111, 135128127, 135128991, 135129055, 135129087, 135129119,
    135130015, 135130095, 135130111, 135130127, 135131039, 135131103, 135132140, 135132172,
    135132204, 135133181, 135134158, 135134254, 135136016, 135136096, 135136112, 135136128,
    135137057, 135137089, 135137121, 135138018, 135138066, 135138098, 135138114, 135138130,
    135139043, 135139107, 135140143, 135140159, 135140175, 135142143, 135142159, 135142175,
    135143136, 135143138, 135144104, 135145097, 135145129, 135146122, 135147115, 135148159,
    135148175, 135149151, 135149183, 135149215, 135151137, 135151145, 135152112, 135153073,
    135154130, 135155059, 135156159, 135156175, 135156207, 135156255, 135159136, 135159138,
    135159146, 135159152, 135159154, 135160040, 135161113, 135162042, 135163003, 135163131,
    135164175, 135165021, 135167139, 135167147, 135167155, 135167163, 135168128, 135169089,
    135170002, 135170130, 135172175, 135172255, 135174207, 135174255, 135175136, 135175138,
    135175152, 135175154, 135176255, 135177129, 135178255, 135183137, 135183169, 135184064,
    135186066, 135187091, 135193113, 135200080, 135201121, 135207138, 135207168, 135207186,
    135207192, 135209129, 135212092, 135213069, 135215137, 135215161, 135215169, 135215193,
    135220255, 135222255, 135224255, 135226058, 135231139, 135231179, 135231203, 135231211,
    135232993, 135234114, 135236116, 135255136, 135255138, 135255186, 135991998, 135992106,
    136014254, 136016017, 136016019, 136016021, 136016107, 136016109, 136016111, 136037253,
    136040044, 136040116, 136040132, 136041241, 136048240, 136056058, 136056118, 136057992,
    136059227, 136060220, 136064067, 136064121, 136064133, 136065016, 136070214, 136073064,
    136077016, 136077197, 136079199, 136081048, 136081201, 136084040, 136085064, 136088090,
    136088098, 136088122, 136088126, 136088134, 136089016, 136092188, 136096097, 136096127,
    136096133, 136097016, 136097064, 136097096, 136098178, 136101016, 136101080, 136101096,
    136103175, 136105096, 136106250, 136107227, 136109096, 136109229, 136110158, 136111231,
    136112135, 136113096, 136113112, 136114162, 136116212, 136117096, 136117112, 136117157,
    136118198, 136121096, 136121112, 136121193, 136125016, 136125096, 136125112, 136125149,
    136126174, 136127167, 136128133, 136129080, 136129096, 136129112, 136129128, 136129992,
    136130056, 136130088, 136130120, 136131016, 136131096, 136131112, 136131128, 136132228,
    136133141, 136133173, 136133205, 136134182, 136135159, 136135255, 136137017, 136137097,
    136137113, 136137129, 136138058, 136138090, 136138122, 136139019, 136139067, 136139099,
    136139115, 136139131, 136140168, 136141144, 136141160, 136141176, 136143144, 136143160,
    136143176, 136144137, 136144139, 136145105, 136146098, 136146130, 136147123, 136149160,
    136149176, 136150152, 136150184, 136150216, 136152138, 136152146, 136153113, 136155131,
    136156168, 136157160, 136157176, 136157208, 136160137, 136160139, 136160147, 136160153,
    136160155, 136161041, 136164168, 136164232, 136165176, 136169129, 136170090, 136171003,
    136171131, 136173176, 136175208, 136176137, 136176139, 136176153, 136176155, 136178130,
    136184138, 136184170, 136185065, 136187067, 136188232, 136201081, 136204232, 136208139,
    136208169, 136208187, 136208193, 136210130, 136213093, 136216138, 136216162, 136216170,
    136216194, 136221021, 136227059, 136233994, 136235115, 136237117, 136992999, 136993107,
    137015255, 137017018, 137017020, 137017022, 137017106, 137017108, 137017110, 137017112,
    137017132, 137038017, 137038254, 137041045, 137041133, 137042242, 137046033, 137049241,
    137054017, 137057059, 137057119, 137058017, 137060049, 137060228, 137061221, 137062017,
    137065068, 137065122, 137065134, 137069041, 137071057, 137071215, 137072033, 137076196,
    137077041, 137078198, 137080200, 137082202, 137085041, 137089091, 137089099, 137089123,
    137089127, 137089135, 137093189, 137097098, 137097106, 137097114, 137097126, 137097128,
    137097134, 137099179, 137101041, 137104176, 137106226, 137107251, 137108228, 137109041,
    137110230, 137111159, 137112232, 137113114, 137113118, 137113132, 137113136, 137115163,
    137116140, 137116156, 137117041, 137117213, 137118158, 137119199, 137122194, 137123057,
    137124033, 137124148, 137125041, 137126150, 137126166, 137127175, 137128168, 137129132,
    137129134, 137130081, 137130097, 137130113, 137130129, 137130993, 137131057, 137131089,
    137131121, 137132140, 137132156, 137132252, 137133229, 137134142, 137134174, 137134206,
    137135183, 137136160, 137138018, 137138098, 137138114, 137138130, 137139059, 137139091,
    137139123, 137140145, 137140161, 137140177, 137141169, 137142145, 137142161, 137142177,
    137144145, 137144161, 137144177, 137145138, 137147099, 137147131, 137148161, 137148177,
    137150161, 137150177, 137151153, 137151185, 137151217, 137153139, 137153147, 137156161,
    137156177, 137157169, 137158161, 137158177, 137158209, 137161138, 137161154, 137162042,
    137164177, 137165169, 137165233, 137166177, 137170130, 137171091, 137172177, 137172193,
    137174177, 137176209, 137177138, 137177154, 137179131, 137185139, 137185171, 137186066,
    137188209, 137189233, 137205233, 137209170, 137209194, 137211131, 137217139, 137217163,
    137217171, 137217195, 137234995, 137236116, 137994000, 137994108, 137994132, 138018019,
    138018021, 138018023, 138018111, 138018113, 138018133, 138039255, 138042046, 138042110,
    138042118, 138042134, 138043243, 138050242, 138058060, 138058120, 138058132, 138059994,
    138061229, 138062222, 138066069, 138066123, 138066135, 138069066, 138072058, 138072216,
    138073018, 138073034, 138075066, 138077197, 138079199, 138081066, 138081201, 138083203,
    138085018, 138086182, 138089082, 138090092, 138090128, 138090136, 138091018, 138092090,
    138093018, 138093066, 138094190, 138096090, 138098099, 138098127, 138098129, 138098135,
    138099018, 138099098, 138100090, 138100180, 138101018, 138101098, 138103098, 138104090,
    138105098, 138105177, 138107227, 138108090, 138108252, 138109018, 138109098, 138109229,
    138110206, 138111231, 138112090, 138112160, 138113098, 138113233, 138114115, 138114133,
    138114137, 138115114, 138116164, 138116196, 138117018, 138117098, 138117114, 138117141,
    138117157, 138118214, 138119114, 138119159, 138120200, 138121114, 138122132, 138123195,
    138124026, 138124058, 138124122, 138124140, 138124172, 138125034, 138125098, 138125114,
    138125149, 138127151, 138127167, 138128122, 138128176, 138129114, 138129169, 138130133,
    138130135, 138131082, 138131098, 138131114, 138131130, 138132148, 138132212, 138133141,
    138133157, 138133253, 138134230, 138135143, 138135175, 138135207, 138136184, 138137161,
    138139019, 138139099, 138139115, 138139131, 138140154, 138141146, 138141162, 138141178,
    138142170, 138143146, 138143162, 138143178, 138145146, 138145162, 138145178, 138146139,
    138148154, 138148186, 138148218, 138149162, 138149178, 138151162, 138151178, 138152154,
    138152186, 138152218, 138157162, 138157178, 138158170, 138159162, 138159178, 138159210,
    138162139, 138162155, 138164186, 138164218, 138165178, 138166170, 138166234, 138167178,
    138171131, 138172186, 138173178, 138173194, 138175178, 138177210, 138178139, 138178155,
    138180186, 138180218, 138187067, 138189210, 138190234, 138196218, 138206234, 138210171,
    138210195, 138212218, 138235996, 138237117, 138995001, 138995109, 138995133, 139019020,
    139019022, 139019024, 139019108, 139019110, 139019112, 139019114, 139019134, 139043047,
    139043111, 139043119, 139043135, 139044244, 139051243, 139059061, 139059121, 139059133,
    139061205, 139062230, 139063223, 139065059, 139067070, 139067118, 139067124, 139067136,
    139068019, 139069059, 139073059, 139073217, 139076067, 139076196, 139077059, 139078198,
    139080200, 139082202, 139084204, 139085059, 139087183, 139091093, 139091129, 139091137,
    139093091, 139095191, 139096995, 139097091, 139099100, 139099126, 139099128, 139099130,
    139099136, 139100099, 139100172, 139101091, 139101181, 139104099, 139105091, 139106178,
    139108228, 139109091, 139109253, 139110230, 139111207, 139112232, 139113091, 139113161,
    139114234, 139115116, 139115132, 139115134, 139115138, 139116115, 139116140, 139116156,
    139117165, 139117197, 139118142, 139118158, 139118190, 139119215, 139120115, 139120160,
    139121201, 139123133, 139124148, 139124196, 139125123, 139125141, 139125173, 139126150,
    139126166, 139128152, 139128168, 139129123, 139129177, 139130115, 139130170, 139131132,
    139131134, 139131136, 139132140, 139132156, 139132172, 139133149, 139133213, 139134142,
    139134158, 139134254, 139135231, 139136144, 139136176, 139136208, 139137185, 139138162,
    139140147, 139140163, 139140179, 139141155, 139142147, 139142163, 139142179, 139143171,
    139144147, 139144163, 139144179, 139146147, 139146163, 139146179, 139148163, 139148179,
    139148211, 139149155, 139149187, 139149219, 139150163, 139150179, 139152163, 139152179,
    139153155, 139153187, 139153219, 139156163, 139156179, 139158163, 139158179, 139159171,
    139160163, 139160179, 139160211, 139164179, 139165187, 139165219, 139166179, 139167171,
    139167235, 139168179, 139172179, 139172211, 139173187, 139174179, 139174195, 139176179,
    139178211, 139181187, 139181219, 139188195, 139190211, 139191235, 139197219, 139207235,
    139213219, 139996002, 139996110, 139996134, 140006988, 140020021, 140020023, 140020025,
    140020113, 140020115, 140021004, 140027020, 140044048, 140044988, 140045245, 140048044,
    140052244, 140055004, 140060062, 140060122, 140061996, 140062060, 140063231, 140064044,
    140064224, 140065020, 140068071, 140069020, 140072044, 140073020, 140074218, 140075020,
    140077020, 140077068, 140080044, 140081020, 140082988, 140084076, 140085020, 140085052,
    140085205, 140088044, 140089004, 140089068, 140092094, 140093020, 140100076, 140101020,
    140101036, 140101068, 140101100, 140102182, 140104044, 140105020, 140105084, 140105100,
    140107052, 140109100, 140110254, 140112044, 140112108, 140113020, 140113068, 140113100,
    140114060, 140115100, 140115235, 140116076, 140117100, 140117116, 140119020, 140119068,
    140119084, 140119100, 140120044, 140120108, 140120988, 140121020, 140121100, 140121116,
    140122060, 140123004, 140123100, 140123116, 140125020, 140125068, 140125100, 140125116,
    140126060, 140126092, 140127036, 140127100, 140127116, 140128044, 140128108, 140129020,
    140129052, 140129100, 140129116, 140130060, 140130092, 140130124, 140131020, 140131068,
    140131100, 140131116, 140133100, 140133132, 140134060, 140134092, 140134124, 140135020,
    140135100, 140135116, 140135132, 140136044, 140136108, 140137020, 140137068, 140137100,
    140137116, 140137132, 140138060, 140138092, 140138124, 140139020, 140139100, 140139116,
    140139132, 140141021, 140141101, 140141117, 140141133, 140142062, 140142094, 140142126,
    140143023, 140143071, 140143103, 140143119, 140143135, 140144048, 140144112, 140145025,
    140145105, 140145121, 140145137, 140146002, 140146066, 140146098, 140146130, 140147027,
    140147091, 140147107, 140147123, 140147139, 140148141, 140148143, 140148145, 140148147,
    140149109, 140149125, 140150102, 140150134, 140151111, 140151127, 140152120, 140153049,
    140153113, 140153129, 140154042, 140154074, 140154106, 140154138, 140155035, 140155083,
    140155115, 140155131, 140156142, 140156146, 140156150, 140156154, 140157117, 140158078,
    140159119, 140159135, 140160064, 140160128, 140161041, 140161105, 140161121, 140161137,
    140162114, 140163043, 140163123, 140163139, 140164141, 140164143, 140164145, 140164147,
    140164151, 140164153, 140164155, 140164157, 140164159, 140164161, 140164163, 140165045,
    140165125, 140166118, 140167047, 140167127, 140168008, 140168136, 140169049, 140169129,
    140170026, 140170090, 140171131, 140172144, 140172152, 140172160, 140172168, 140173101,
    140173133, 140174094, 140175007, 140175135, 140176016, 140177057, 140177137, 140178130,
    140179059, 140179075, 140179107, 140179139, 140179988, 140180141, 140180143, 140180145,
    140180147, 140180153, 140180155, 140180157, 140180159, 140180161, 140180163, 140180169,
    140180171, 140180179, 140182134, 140184088, 140184985, 140186106, 140186138, 140188142,
    140188146, 140188154, 140188162, 140188170, 140188174, 140188178, 140189069, 140191071,
    140192096, 140193073, 140194114, 140195075, 140196147, 140196161, 140198118, 140203035,
    140203131, 140205085, 140206126, 140207087, 140208048, 140209089, 140209137, 140210130,
    140212143, 140212173, 140212179, 140212191, 140212197, 140212203, 140214134, 140217097,
    140217129, 140218074, 140218138, 140219099, 140220142, 140220146, 140220166, 140220170,
    140220174, 140220178, 140220198, 140220202, 140220218, 140221101, 140224128, 140225025,
    140227107, 140228195, 140229109, 140231063, 140236144, 140236184, 140236208, 140236216,
    140237998, 140239119, 140241121, 140242002, 140243123, 140244052, 140245125, 140248088,
    140251131, 140997003, 140997111, 141021022, 141021024, 141021026, 141021110, 141021114,
    141021116, 141028021, 141034021, 141042021, 141045049, 141046021, 141046246, 141050021,
    141050037, 141052021, 141053245, 141054021, 141058021, 141061063, 141061123, 141062021,
    141064053, 141064232, 141065045, 141065225, 141069072, 141069126, 141073045, 141075061,
    141075219, 141076021, 141076037, 141081045, 141084204, 141085077, 141086206, 141089045,
    141093095, 141101077, 141101102, 141101110, 141101132, 141103183, 141105045, 141108180,
    141111255, 141113045, 141113109, 141114234, 141116101, 141116236, 141117077, 141117118,
    141117122, 141117140, 141120021, 141120069, 141120085, 141120101, 141121045, 141121109,
    141124101, 141124117, 141126198, 141127061, 141127093, 141128037, 141128101, 141128117,
    141129045, 141129109, 141130021, 141130053, 141130101, 141130117, 141131061, 141131093,
    141131125, 141132172, 141134101, 141134133, 141134997, 141135061, 141135093, 141135125,
    141136021, 141136101, 141136117, 141136133, 141137045, 141137109, 141138021, 141138069,
    141138101, 141138117, 141138133, 141139061, 141139093, 141139125, 141140164, 141142022,
    141142102, 141142118, 141142134, 141143063, 141143095, 141143127, 141144024, 141144072,
    141144104, 141144120, 141144136, 141144985, 141145049, 141145113, 141146026, 141146106,
    141146122, 141146138, 141147003, 141147067, 141147099, 141147131, 141148149, 141148165,
    141148181, 141149142, 141149144, 141149146, 141150110, 141151103, 141151135, 141152112,
    141152128, 141153121, 141154050, 141154114, 141154130, 141155043, 141155075, 141155107,
    141155139, 141157143, 141157147, 141157151, 141157155, 141158118, 141159079, 141160120,
    141160136, 141161065, 141161129, 141162042, 141162106, 141162122, 141162138, 141163115,
    141165142, 141165144, 141165146, 141165152, 141165154, 141165158, 141165160, 141165162,
    141166046, 141167119, 141168048, 141168128, 141169009, 141169137, 141170050, 141170130,
    141171027, 141171091, 141173145, 141173153, 141173161, 141173169, 141174134, 141175095,
    141176008, 141176136, 141177017, 141178058, 141178138, 141179131, 141180108, 141180213,
    141181142, 141181144, 141181146, 141181154, 141181158, 141181160, 141181162, 141181170,
    141183135, 141185089, 141185986, 141187107, 141187139, 141189143, 141189147, 141189155,
    141189163, 141189171, 141189175, 141189179, 141190070, 141192072, 141193097, 141194074,
    141195115, 141197162, 141199119, 141206086, 141207127, 141208088, 141209049, 141210138,
    141211131, 141213144, 141213174, 141213192, 141213198, 141215135, 141218098, 141218130,
    141219075, 141219139, 141220100, 141221143, 141221147, 141221167, 141221171, 141221175,
    141221179, 141221199, 141221203, 141221219, 141225129, 141226026, 141228108, 141232064,
    141237145, 141237185, 141237209, 141237217, 141238999, 141240120, 141242122, 141243003,
    141244124, 141249089, 141998004, 141998112, 142022023, 142022025, 142022027, 142022115,
    142022117, 142046050, 142046114, 142046122, 142047247, 142054246, 142062064, 142062124,
    142063998, 142065022, 142065054, 142065233, 142066226, 142070127, 142073070, 142076062,
    142076220, 142077022, 142077038, 142079070, 142085070, 142085205, 142087207, 142089022,
    142091070, 142093086, 142094132, 142094140, 142095022, 142096094, 142097022, 142097070,
    142098194, 142100094, 142102103, 142102133, 142103022, 142103070, 142103102, 142104094,
    142104184, 142105022, 142105102, 142107086, 142107102, 142108094, 142109070, 142109102,
    142109181, 142111102, 142112094, 142113022, 142113102, 142115102, 142115235, 142116094,
    142117102, 142117237, 142118141, 142119102, 142119118, 142120094, 142121022, 142121070,
    142121086, 142121102, 142121118, 142122218, 142123102, 142123118, 142124094, 142124204,
    142125102, 142125118, 142127102, 142127118, 142127199, 142128030, 142128062, 142128094,
    142128126, 142129038, 142129102, 142129118, 142130046, 142130110, 142131022, 142131054,
    142131102, 142131118, 142132180, 142133173, 142135086, 142135102, 142135118, 142135134,
    142135998, 142136062, 142136094, 142136126, 142137022, 142137102, 142137118, 142137134,
    142138046, 142138110, 142139022, 142139070, 142139102, 142139118, 142139134, 142140188,
    142141165, 142143023, 142143103, 142143119, 142143135, 142144064, 142144096, 142144128,
    142145025, 142145073, 142145105, 142145121, 142145137, 142145986, 142146050, 142146114,
    142147027, 142147107, 142147123, 142147139, 142148004, 142149150, 142149166, 142149182,
    142150143, 142150145, 142150147, 142151111, 142152104, 142152136, 142153113, 142153129,
    142154122, 142155115, 142155131, 142156158, 142156190, 142156222, 142158144, 142158152,
    142159119, 142160080, 142161121, 142161137, 142162066, 142162130, 142163043, 142163107,
    142163123, 142163139, 142166143, 142166145, 142166147, 142166153, 142166155, 142166159,
    142166161, 142166163, 142167047, 142168120, 142169049, 142169129, 142170010, 142170138,
    142171131, 142172028, 142174146, 142174154, 142174162, 142174170, 142175135, 142176096,
    142177009, 142177137, 142178018, 142179059, 142179139, 142181109, 142181214, 142182143,
    142182145, 142182147, 142182155, 142182159, 142182161, 142182163, 142182171, 142184136,
    142186987, 142190144, 142190176, 142191071, 142193073, 142194098, 142195075, 142198163,
    142200120, 142207087, 142208128, 142209089, 142210050, 142211139, 142214145, 142214175,
    142214193, 142214199, 142216136, 142219099, 142219131, 142220076, 142221101, 142222144,
    142222168, 142222176, 142222200, 142226130, 142227027, 142229109, 142233065, 142238146,
    142238186, 142238210, 142238218, 142240000, 142241121, 142243123, 142244004, 142245125,
    142999005, 142999113, 143023024, 143023026, 143023028, 143023114, 143023116, 143023118,
    143044023, 143047051, 143047123, 143048248, 143052039, 143055247, 143060023, 143063065,
    143063125, 143064023, 143064999, 143065063, 143066234, 143067227, 143068023, 143069063,
    143071074, 143071128, 143071140, 143072023, 143073031, 143073063, 143077063, 143077221,
    143080071, 143081063, 143084023, 143084204, 143085063, 143086206, 143088055, 143088208,
    143089063, 143091047, 143092071, 143093063, 143095133, 143095141, 143096023, 143097063,
    143097095, 143099195, 143100999, 143101031, 143101063, 143101095, 143103104, 143103132,
    143103134, 143103140, 143104023, 143104071, 143104103, 143105063, 143105095, 143105185,
    143108023, 143108087, 143108103, 143109095, 143110182, 143112103, 143113063, 143113095,
    143114234, 143116103, 143116236, 143117063, 143117095, 143118238, 143119142, 143120103,
    143120119, 143121063, 143121095, 143123219, 143124103, 143124119, 143124164, 143125063,
    143125095, 143125205, 143128103, 143128119, 143128200, 143129031, 143129063, 143129095,
    143129127, 143130039, 143130103, 143130119, 143131047, 143131111, 143132156, 143132172,
    143133181, 143134174, 143135140, 143136087, 143136103, 143136119, 143136135, 143136999,
    143137063, 143137095, 143137127, 143138023, 143138103, 143138119, 143138135, 143139047,
    143139111, 143140148, 143140180, 143140212, 143141189, 143142166, 143144024, 143144104,
    143144120, 143144136, 143145065, 143145097, 143145129, 143146026, 143146074, 143146106,
    143146122, 143146138, 143146987, 143147051, 143147115, 143148151, 143148167, 143148183,
    143150151, 143150167, 143150183, 143151144, 143151146, 143152112, 143153105, 143153137,
    143154130, 143155123, 143156167, 143156183, 143157159, 143157191, 143157223, 143159145,
    143159153, 143160120, 143161081, 143162138, 143163067, 143163131, 143164167, 143164183,
    143164215, 143167144, 143167146, 143167154, 143167160, 143167162, 143168048, 143169121,
    143170050, 143170130, 143171011, 143171139, 143172183, 143173029, 143175147, 143175155,
    143175163, 143175171, 143176136, 143177097, 143178010, 143178138, 143180183, 143182215,
    143183144, 143183146, 143183160, 143183162, 143185137, 143191145, 143191177, 143192072,
    143194074, 143195099, 143201121, 143208088, 143209129, 143215146, 143215176, 143215194,
    143215200, 143217137, 143220100, 143221077, 143223145, 143223169, 143223177, 143223201,
    143227131, 143234066, 143239147, 143239187, 143239211, 143239219, 143241001, 143242122,
    143244124, 144000006, 144000114, 144024025, 144024027, 144024029, 144024115, 144024117,
    144024119, 144048052, 144048124, 144048140, 144049249, 144056248, 144064066, 144064126,
    144065024, 144067235, 144068228, 144069024, 144072075, 144072129, 144072141, 144073024,
    144078222, 144081072, 144085024, 144085205, 144087207, 144089056, 144089209, 144092048,
    144093072, 144096098, 144096106, 144096134, 144096142, 144097024, 144100196, 144104105,
    144104133, 144104135, 144104141, 144105024, 144105072, 144105104, 144106186, 144109024,
    144109088, 144109104, 144111183, 144113104, 144115235, 144117104, 144117237, 144118166,
    144119239, 144120143, 144121104, 144121120, 144122170, 144124220, 144124992, 144125104,
    144125120, 144125165, 144126206, 144129104, 144129120, 144129201, 144130032, 144130064,
    144130096, 144130128, 144131040, 144131104, 144131120, 144133157, 144133173, 144134182,
    144135175, 144136141, 144137088, 144137104, 144137120, 144137136, 144138000, 144138064,
    144138096, 144138128, 144139024, 144139104, 144139120, 144139136, 144140236, 144141149,
    144141181, 144141213, 144142190, 144143167, 144145025, 144145105, 144145121, 144145137,
    144146066, 144146098, 144146130, 144147027, 144147075, 144147107, 144147123, 144147139,
    144147988, 144148176, 144149152, 144149168, 144149184, 144151152, 144151168, 144151184,
    144152145, 144152147, 144153113, 144154106, 144154138, 144155131, 144157168, 144157184,
    144158160, 144158192, 144158224, 144160146, 144160154, 144161121, 144163139, 144164176,
    144165168, 144165184, 144165216, 144168145, 144168147, 144168155, 144168161, 144168163,
    144169049, 144171131, 144172176, 144172240, 144173184, 144177137, 144178098, 144179011,
    144179139, 144181184, 144183216, 144184145, 144184147, 144184161, 144184163, 144186138,
    144192146, 144192178, 144193073, 144195075, 144196240, 144209089, 144210130, 144212240,
    144216147, 144216177, 144216195, 144216201, 144218138, 144221101, 144224146, 144224170,
    144224178, 144224202, 144229029, 144235067, 144242002, 144243123, 144245125, 144984989,
    144985109, 145001007, 145001115, 145012985, 145025026, 145025028, 145025030, 145025114,
    145025116, 145025118, 145025120, 145025140, 145046025, 145049053, 145049141, 145050250,
    145054041, 145057249, 145062025, 145065067, 145065127, 145068057, 145068236, 145069049,
    145069229, 145073076, 145073130, 145073142, 145077049, 145079223, 145080041, 145084204,
    145085049, 145086206, 145088208, 145090210, 145093049, 145097099, 145097107, 145097135,
    145097143, 145101197, 145105106, 145105114, 145105122, 145105132, 145105134, 145105136,
    145105142, 145107187, 145109049, 145112184, 145114234, 145116236, 145116985, 145117049,
    145118238, 145119167, 145120240, 145121122, 145121126, 145121140, 145121144, 145123171,
    145124148, 145124164, 145124985, 145125049, 145125221, 145126166, 145127207, 145130105,
    145130121, 145130202, 145131033, 145131065, 145131097, 145131129, 145132156, 145132172,
    145134158, 145134174, 145135183, 145136176, 145137140, 145137142, 145138089, 145138105,
    145138121, 145138137, 145139001, 145139065, 145139097, 145139129, 145140148, 145140164,
    145141237, 145142150, 145142182, 145142214, 145143191, 145144168, 145146026, 145146106,
    145146122, 145146138, 145147067, 145147099, 145147131, 145148153, 145148169, 145148185,
    145149177, 145150153, 145150169, 145150185, 145152153, 145152169, 145152185, 145153146,
    145155107, 145155139, 145156169, 145156185, 145158169, 145158185, 145159161, 145159193,
    145159225, 145161147, 145161155, 145164169, 145164185, 145165177, 145166169, 145166185,
    145166217, 145169146, 145169162, 145170050, 145172185, 145173177, 145173241, 145174185,
    145178138, 145179099, 145180185, 145180201, 145182185, 145184217, 145185146, 145185162,
    145187139, 145193147, 145193179, 145194074, 145196217, 145197241, 145211131, 145213241,
    145217178, 145217202, 145219139, 145225147, 145225171, 145225179, 145225203, 145243003,
    145244124, 145985990, 145986110, 146002008, 146002116, 146002140, 146013986, 146026027,
    146026029, 146026031, 146026119, 146026121, 146026141, 146050054, 146050118, 146050126,
    146050142, 146051251, 146058250, 146065026, 146066068, 146066128, 146066140, 146068002,
    146068066, 146069026, 146069058, 146069237, 146070230, 146072066, 146074077, 146074131,
    146074143, 146076066, 146077074, 146080066, 146080224, 146081026, 146081042, 146083074,
    146084066, 146085205, 146087207, 146089074, 146089209, 146091211, 146092066, 146093026,
    146094190, 146097090, 146098100, 146098132, 146098136, 146098144, 146099026, 146100098,
    146101026, 146101074, 146102198, 146104098, 146106107, 146106133, 146106135, 146106137,
    146106143, 146107026, 146107106, 146108098, 146108188, 146109026, 146109106, 146111106,
    146112098, 146113106, 146113185, 146115235, 146116098, 146117026, 146117106, 146117237,
    146118214, 146119239, 146120098, 146120168, 146121106, 146121241, 146122123, 146122141,
    146122145, 146123122, 146124172, 146124204, 146125026, 146125106, 146125122, 146125149,
    146125165, 146126222, 146127122, 146127167, 146128208, 146129122, 146130132, 146130140,
    146131106, 146131122, 146131203, 146132148, 146132180, 146133157, 146133173, 146135159,
    146135175, 146136184, 146137122, 146137177, 146138141, 146138143, 146139090, 146139106,
    146139122, 146139138, 146140156, 146140220, 146141149, 146141165, 146142238, 146143151,
    146143183, 146143215, 146144192, 146145169, 146147027, 146147107, 146147123, 146147139,
    146148162, 146149154, 146149170, 146149186, 146150178, 146151154, 146151170, 146151186,
    146153154, 146153170, 146153186, 146154147, 146156162, 146156194, 146156226, 146157170,
    146157186, 146159170, 146159186, 146160162, 146160194, 146160226, 146165170, 146165186,
    146166178, 146167170, 146167186, 146167218, 146170147, 146170163, 146172194, 146172226,
    146173186, 146174178, 146174242, 146175186, 146179139, 146180194, 146181186, 146181202,
    146183186, 146185218, 146186147, 146186163, 146188194, 146188226, 146195075, 146197218,
    146198242, 146204226, 146214242, 146218179, 146218203, 146220226, 146244004, 146245125,
    146986991, 146987111, 147003009, 147003117, 147003141, 147014987, 147027028, 147027030,
    147027032, 147027116, 147027118, 147027120, 147027122, 147027142, 147051055, 147051119,
    147051127, 147051143, 147052252, 147059251, 147067069, 147067129, 147067141, 147069003,
    147069067, 147070238, 147071231, 147073067, 147075078, 147075126, 147075132, 147075144,
    147076027, 147077067, 147081067, 147081225, 147084075, 147084204, 147085067, 147086206,
    147088208, 147090210, 147092212, 147093067, 147095191, 147099101, 147099133, 147099137,
    147099145, 147101099, 147103199, 147105003, 147105099, 147107108, 147107134, 147107136,
    147107138, 147107144, 147108107, 147108180, 147109099, 147109189, 147112107, 147113099,
    147114186, 147116236, 147117099, 147118238, 147119215, 147120240, 147121099, 147121169,
    147122242, 147123124, 147123132, 147123140, 147123142, 147123146, 147124123, 147124148,
    147124164, 147125173, 147125205, 147126150, 147126166, 147126198, 147127223, 147128123,
    147128168, 147129209, 147130011, 147130123, 147131019, 147131133, 147131141, 147132156,
    147132172, 147132204, 147133149, 147133181, 147134158, 147134174, 147136160, 147136176,
    147137185, 147138123, 147138178, 147139140, 147139142, 147139144, 147140148, 147140164,
    147140180, 147141157, 147141221, 147142150, 147142166, 147143239, 147144152, 147144184,
    147144216, 147145193, 147146170, 147148155, 147148171, 147148187, 147149163, 147150155,
    147150171, 147150187, 147151179, 147152155, 147152171, 147152187, 147154155, 147154171,
    147154187, 147156171, 147156187, 147156219, 147157163, 147157195, 147157227, 147158171,
    147158187, 147160171, 147160187, 147161163, 147161195, 147161227, 147164171, 147164187,
    147166171, 147166187, 147167179, 147168171, 147168187, 147168219, 147172187, 147173195,
    147173227, 147174187, 147175179, 147175243, 147176187, 147180187, 147180219, 147181195,
    147182187, 147182203, 147184187, 147186219, 147189195, 147189227, 147196203, 147198219,
    147199243, 147205227, 147215243, 147221227, 147987992, 147988112, 148004010, 148004118,
    148004142, 148014996, 148015988, 148028029, 148028031, 148028033, 148028121, 148028123,
    148029012, 148052056, 148052996, 148053253, 148056052, 148060252, 148063012, 148065028,
    148068070, 148069028, 148071239, 148072052, 148072232, 148073028, 148076079, 148076133,
    148077028, 148080052, 148081028, 148082226, 148083028, 148085028, 148085076, 148088052,
    148089028, 148090996, 148092084, 148093028, 148093060, 148093213, 148096052, 148097012,
    148097076, 148100102, 148101028, 148108084, 148109028, 148109044, 148109076, 148109108,
    148110190, 148112052, 148113028, 148113092, 148113108, 148115060, 148117108, 148119988,
    148120052, 148120116, 148121028, 148121076, 148121108, 148122068, 148123108, 148123243,
    148124084, 148125108, 148125124, 148127028, 148127076, 148127092, 148127108, 148128052,
    148128116, 148128996, 148129028, 148129108, 148129124, 148130068, 148130100, 148131012,
    148131028, 148131108, 148131124, 148133205, 148134068, 148134100, 148134132, 148135044,
    148135108, 148135124, 148135988, 148136052, 148136116, 148137028, 148137060, 148137108,
    148137124, 148138068, 148138100, 148138132, 148139028, 148139076, 148139108, 148139124,
    148141108, 148141140, 148142068, 148142100, 148142132, 148143028, 148143108, 148143124,
    148143140, 148144052, 148144116, 148145028, 148145076, 148145108, 148145124, 148145140,
    148146068, 148146100, 148146132, 148147028, 148147108, 148147124, 148147140, 148149029,
    148149109, 148149125, 148149141, 148150070, 148150102, 148150134, 148151031, 148151079,
    148151111, 148151127, 148151143, 148151992, 148152056, 148152120, 148153033, 148153113,
    148153129, 148153145, 148154010, 148154074, 148154106, 148154138, 148154987, 148155035,
    148155099, 148155115, 148155131, 148155147, 148156149, 148156151, 148156153, 148156155,
    148157117, 148158110, 148158142, 148159119, 148159135, 148160128, 148161057, 148161121,
    148161137, 148162050, 148162082, 148162114, 148162146, 148163043, 148163091, 148163123,
    148163139, 148164150, 148164154, 148164158, 148164162, 148165125, 148166086, 148167127,
    148167143, 148168072, 148168136, 148169049, 148169113, 148169129, 148169145, 148170122,
    148171051, 148171131, 148171147, 148172149, 148172151, 148172153, 148172155, 148172159,
    148172161, 148172163, 148172165, 148172167, 148172169, 148172171, 148173053, 148174126,
    148175055, 148175135, 148176016, 148176144, 148177057, 148177137, 148178034, 148178098,
    148178130, 148179139, 148180152, 148180160, 148180168, 148180176, 148181109, 148181141,
    148182102, 148183015, 148183143, 148184024, 148185065, 148185145, 148186138, 148187067,
    148187083, 148187115, 148187147, 148187996, 148188149, 148188151, 148188153, 148188155,
    148188161, 148188163, 148188165, 148188167, 148188169, 148188171, 148188177, 148188179,
    148188187, 148190142, 148192096, 148192993, 148194114, 148194146, 148196150, 148196154,
    148196162, 148196170, 148196178, 148196182, 148196186, 148197077, 148199079, 148200104,
    148201081, 148202122, 148203083, 148204155, 148204169, 148206126, 148210130, 148211043,
    148211139, 148213093, 148214134, 148215095, 148216056, 148217097, 148217145, 148218138,
    148220151, 148220181, 148220187, 148220199, 148220205, 148220211, 148222142, 148225105,
    148225137, 148226082, 148226146, 148227107, 148228150, 148228154, 148228174, 148228178,
    148228182, 148228186, 148228206, 148228210, 148228226, 148229109, 148232136, 148233033,
    148235115, 148236203, 148237117, 148239071, 148244152, 148244192, 148244216, 148244224,
    148246006, 148247127, 148249129, 148250010, 148251131, 148252060, 148988993, 148989113,
    149005011, 149005119, 149016989, 149029030, 149029032, 149029034, 149029118, 149029122,
    149029124, 149036029, 149042029, 149050029, 149053057, 149054029, 149054254, 149058029,
    149058045, 149060029, 149061253, 149062029, 149065053, 149069071, 149072061, 149072240,
    149073053, 149073233, 149077080, 149077134, 149081053, 149083227, 149084029, 149084045,
    149089053, 149092212, 149093085, 149094214, 149097053, 149101103, 149109085, 149109110,
    149109118, 149109140, 149111191, 149113053, 149116188, 149120989, 149121053, 149121117,
    149122242, 149123069, 149124109, 149124244, 149125085, 149125126, 149125148, 149128029,
    149128077, 149128093, 149128109, 149128989, 149129053, 149129117, 149129997, 149130029,
    149130109, 149130125, 149131069, 149131101, 149134206, 149135037, 149135069, 149135101,
    149135133, 149136045, 149136109, 149136125, 149136989, 149137053, 149137117, 149138029,
    149138061, 149138109, 149138125, 149139069, 149139101, 149139133, 149140180, 149142109,
    149142141, 149143005, 149143069, 149143101, 149143133, 149144029, 149144109, 149144125,
    149144141, 149144989, 149145053, 149145117, 149146029, 149146077, 149146109, 149146125,
    149146141, 149147069, 149147101, 149147133, 149148172, 149150030, 149150110, 149150126,
    149150142, 149151071, 149151103, 149151135, 149152032, 149152080, 149152112, 149152128,
    149152144, 149152993, 149153057, 149153121, 149154034, 149154114, 149154130, 149154146,
    149155011, 149155075, 149155107, 149155139, 149156157, 149156173, 149156189, 149157150,
    149157152, 149157154, 149158118, 149159111, 149159143, 149160120, 149160136, 149161129,
    149162058, 149162122, 149162138, 149163051, 149163083, 149163115, 149163147, 149165151,
    149165155, 149165159, 149165163, 149166126, 149167087, 149168128, 149168144, 149169073,
    149169137, 149170050, 149170114, 149170130, 149170146, 149171123, 149173150, 149173152,
    149173154, 149173160, 149173162, 149173166, 149173168, 149173170, 149174054, 149175127,
    149176056, 149176136, 149177017, 149177145, 149178058, 149178138, 149179035, 149179099,
    149179131, 149181153, 149181161, 149181169, 149181177, 149182142, 149183103, 149184016,
    149184144, 149185025, 149186066, 149186146, 149187139, 149188116, 149188221, 149189150,
    149189152, 149189154, 149189162, 149189166, 149189168, 149189170, 149189178, 149191143,
    149193097, 149193994, 149195115, 149195147, 149197151, 149197155, 149197163, 149197171,
    149197179, 149197183, 149197187, 149198078, 149200080, 149201105, 149202082, 149203123,
    149205170, 149207127, 149211131, 149214094, 149215135, 149216096, 149217057, 149218146,
    149219139, 149221152, 149221182, 149221200, 149221206, 149223143, 149226106, 149226138,
    149227083, 149227147, 149228108, 149229151, 149229155, 149229175, 149229179, 149229183,
    149229187, 149229207, 149229211, 149229227, 149233137, 149234034, 149236116, 149240072,
    149245153, 149245193, 149245217, 149245225, 149247007, 149248128, 149250130, 149251011,
    149989994, 149990114, 150006012, 150006120, 150017990, 150030031, 150030033, 150030035,
    150030123, 150030125, 150054058, 150054122, 150055255, 150062254, 150065030, 150069030,
    150070072, 150070132, 150072006, 150072070, 150073030, 150073062, 150073241, 150074234,
    150076070, 150078135, 150080070, 150081078, 150084070, 150084228, 150085030, 150085046,
    150087078, 150088070, 150092070, 150093078, 150093213, 150095215, 150096070, 150097030,
    150099078, 150100070, 150101094, 150102140, 150102148, 150103030, 150104070, 150104102,
    150105030, 150105078, 150106202, 150108070, 150108102, 150110111, 150110141, 150111030,
    150111078, 150111110, 150112070, 150112102, 150112192, 150113030, 150113110, 150115094,
    150115110, 150116102, 150117078, 150117110, 150117189, 150119110, 150120070, 150120102,
    150121030, 150121110, 150123110, 150123243, 150124070, 150124102, 150125110, 150125245,
    150126149, 150127110, 150127126, 150128070, 150128102, 150129030, 150129078, 150129094,
    150129110, 150129126, 150129990, 150130054, 150130118, 150130998, 150131030, 150131110,
    150131126, 150132212, 150135110, 150135126, 150135207, 150136038, 150136070, 150136102,
    150136134, 150137046, 150137110, 150137126, 150137990, 150138054, 150138118, 150139030,
    150139062, 150139110, 150139126, 150140188, 150141181, 150143094, 150143110, 150143126,
    150143142, 150144006, 150144070, 150144102, 150144134, 150145030, 150145110, 150145126,
    150145142, 150145990, 150146054, 150146118, 150147030, 150147078, 150147110, 150147126,
    150147142, 150148196, 150149173, 150151031, 150151111, 150151127, 150151143, 150152072,
    150152104, 150152136, 150153033, 150153081, 150153113, 150153129, 150153145, 150153994,
    150154058, 150154122, 150155035, 150155115, 150155131, 150155147, 150156012, 150157158,
    150157174, 150157190, 150158151, 150158153, 150158155, 150159119, 150160112, 150160144,
    150161121, 150161137, 150162130, 150163123, 150163139, 150164166, 150164198, 150164230,
    150166152, 150166160, 150167127, 150168088, 150169129, 150169145, 150170074, 150170138,
    150171051, 150171115, 150171131, 150171147, 150174151, 150174153, 150174155, 150174161,
    150174163, 150174167, 150174169, 150174171, 150175055, 150176128, 150177057, 150177137,
    150178018, 150178146, 150179139, 150180036, 150182154, 150182162, 150182170, 150182178,
    150183143, 150184104, 150184985, 150185017, 150185145, 150186026, 150187067, 150187147,
    150189117, 150189222, 150190151, 150190153, 150190155, 150190163, 150190167, 150190169,
    150190171, 150190179, 150192144, 150194995, 150198152, 150198184, 150199079, 150201081,
    150202106, 150203083, 150206171, 150208128, 150215095, 150216136, 150217097, 150218058,
    150219147, 150222153, 150222183, 150222201, 150222207, 150224144, 150227107, 150227139,
    150228084, 150229109, 150230152, 150230176, 150230184, 150230208, 150234138, 150235035,
    150237117, 150241073, 150246154, 150246194, 150246218, 150246226, 150248008, 150249129,
    150251131, 150252012, 150990995, 150991115, 151007013, 151007121, 151018991, 151031032,
    151031034, 151031036, 151031122, 151031124, 151031126, 151052031, 151055059, 151060047,
    151063255, 151068031, 151071073, 151071133, 151072031, 151073007, 151073071, 151074242,
    151075235, 151076031, 151077071, 151079082, 151079136, 151079148, 151080031, 151081039,
    151081071, 151085071, 151085229, 151088079, 151089071, 151092031, 151092212, 151093071,
    151094214, 151096063, 151096216, 151097071, 151099055, 151100079, 151101071, 151103141,
    151103149, 151104031, 151105071, 151105103, 151107203, 151109007, 151109039, 151109071,
    151109103, 151111112, 151111140, 151111142, 151111148, 151112031, 151112079, 151112111,
    151113071, 151113103, 151113193, 151116031, 151116095, 151116111, 151117103, 151118190,
    151120111, 151121071, 151121103, 151122242, 151124111, 151124244, 151125071, 151125103,
    151126246, 151127132, 151127150, 151128111, 151128127, 151129071, 151129103, 151130031,
    151130079, 151130095, 151130111, 151130127, 151130991, 151131055, 151131119, 151132172,
    151133213, 151136111, 151136127, 151136208, 151137039, 151137071, 151137103, 151137135,
    151138047, 151138111, 151138127, 151138991, 151139055, 151139119, 151140164, 151140180,
    151141189, 151142182, 151143148, 151144095, 151144111, 151144127, 151144143, 151145007,
    151145071, 151145103, 151145135, 151146031, 151146111, 151146127, 151146143, 151146991,
    151147055, 151147119, 151148156, 151148188, 151148220, 151149197, 151150174, 151152032,
    151152112, 151152128, 151152144, 151153073, 151153105, 151153137, 151154034, 151154082,
    151154114, 151154130, 151154146, 151154995, 151155059, 151155123, 151156159, 151156175,
    151156191, 151158159, 151158175, 151158191, 151159152, 151159154, 151160120, 151161113,
    151161145, 151162138, 151163131, 151164175, 151164191, 151165167, 151165199, 151165231,
    151167153, 151167161, 151168128, 151169089, 151170130, 151170146, 151171075, 151171139,
    151172175, 151172191, 151172223, 151175152, 151175154, 151175162, 151175168, 151175170,
    151176056, 151177129, 151178058, 151178138, 151179019, 151179147, 151180191, 151183155,
    151183163, 151183171, 151183179, 151184144, 151185105, 151185986, 151186018, 151186146,
    151188191, 151190223, 151191152, 151191154, 151191168, 151191170, 151193145, 151199153,
    151199185, 151200080, 151202082, 151203107, 151209129, 151216096, 151217137, 151223154,
    151223184, 151223202, 151223208, 151225145, 151228108, 151229085, 151231153, 151231177,
    151231185, 151231209, 151235139, 151242074, 151247155, 151247195, 151247219, 151247227,
    151249009, 151250130, 151991996, 151992116, 152008014, 152008122, 152019992, 152032033,
    152032035, 152032037, 152032123, 152032125, 152032127, 152056060, 152056132, 152056148,
    152069032, 152072074, 152072134, 152073032, 152075243, 152076236, 152077032, 152080083,
    152080137, 152080149, 152081032, 152086230, 152089080, 152093032, 152093213, 152095215,
    152097064, 152097217, 152100056, 152101080, 152104106, 152104114, 152104142, 152104150,
    152105032, 152108204, 152112113, 152112141, 152112143, 152112149, 152113032, 152113080,
    152113112, 152114194, 152117032, 152117096, 152117112, 152119191, 152121112, 152123243,
    152123992, 152125112, 152125245, 152126174, 152127247, 152128133, 152128151, 152129112,
    152129128, 152130072, 152130104, 152131032, 152131080, 152131096, 152131112, 152131128,
    152132228, 152133173, 152134214, 152137112, 152137128, 152137209, 152138040, 152138072,
    152138104, 152138136, 152139048, 152139112, 152139128, 152141165, 152141181, 152142190,
    152143183, 152144149, 152145096, 152145112, 152145128, 152145144, 152146008, 152146072,
    152146104, 152146136, 152147032, 152147112, 152147128, 152147144, 152148244, 152149157,
    152149189, 152149221, 152150198, 152151175, 152153033, 152153113, 152153129, 152153145,
    152154074, 152154106, 152154138, 152155035, 152155083, 152155115, 152155131, 152155147,
    152155996, 152156184, 152157160, 152157176, 152157192, 152159160, 152159176, 152159192,
    152160153, 152160155, 152161121, 152162114, 152162146, 152163139, 152165176, 152165192,
    152166168, 152166200, 152166232, 152168154, 152168162, 152169129, 152171131, 152171147,
    152172184, 152173176, 152173192, 152173224, 152176153, 152176155, 152176163, 152176169,
    152176171, 152177057, 152178130, 152179139, 152180184, 152180248, 152181192, 152185145,
    152186106, 152186987, 152187019, 152187147, 152189192, 152191224, 152192153, 152192155,
    152192169, 152192171, 152194146, 152200154, 152200186, 152201081, 152203083, 152204248,
    152210130, 152217097, 152218138, 152220248, 152224155, 152224185, 152224203, 152224209,
    152226146, 152229109, 152232154, 152232178, 152232186, 152232210, 152243075, 152250010,
    152251131, 152984992, 152985118, 152992997, 152993117, 153009015, 153009123, 153020993,
    153033036, 153033038, 153033126, 153033128, 153033148, 153033985, 153034033, 153036033,
    153038033, 153040033, 153042033, 153044033, 153046033, 153048033, 153050033, 153052033,
    153054033, 153056033, 153057061, 153057133, 153057149, 153058033, 153061985, 153062033,
    153062049, 153064033, 153068033, 153069057, 153072033, 153073075, 153073135, 153076033,
    153076244, 153077057, 153077237, 153081084, 153081132, 153081138, 153081150, 153085057,
    153087231, 153088033, 153088049, 153092212, 153093057, 153094214, 153096216, 153098218,
    153100033, 153101057, 153105107, 153105115, 153105143, 153105151, 153106033, 153108033,
    153109205, 153113114, 153113122, 153113140, 153113142, 153113144, 153113150, 153114033,
    153115195, 153116033, 153117057, 153120192, 153122242, 153124033, 153124244, 153124993,
    153125057, 153126246, 153127175, 153128248, 153129132, 153129134, 153129148, 153129152,
    153130113, 153130129, 153131073, 153131105, 153132156, 153132172, 153132204, 153133229,
    153134174, 153135215, 153138113, 153138129, 153138210, 153139041, 153139073, 153139105,
    153139137, 153140164, 153140180, 153142166, 153142182, 153143191, 153144184, 153145148,
    153145150, 153145985, 153146097, 153146113, 153146129, 153146145, 153147009, 153147073,
    153147105, 153147137, 153148156, 153148172, 153149245, 153150158, 153150190, 153150222,
    153151199, 153152176, 153154034, 153154114, 153154130, 153154146, 153155075, 153155107,
    153155139, 153156161, 153156177, 153156193, 153157185, 153158161, 153158177, 153158193,
    153160161, 153160177, 153160193, 153161154, 153163115, 153163147, 153164177, 153164193,
    153166177, 153166193, 153167169, 153167201, 153167233, 153169155, 153169163, 153170130,
    153172177, 153172193, 153173185, 153174177, 153174193, 153174225, 153177154, 153177170,
    153178058, 153179131, 153180193, 153181185, 153181249, 153182193, 153186146, 153187107,
    153188193, 153188209, 153190193, 153192225, 153193154, 153193170, 153195147, 153201155,
    153201187, 153202082, 153204225, 153205249, 153211131, 153219139, 153221249, 153225186,
    153225210, 153227147, 153233155, 153233179, 153233187, 153233211, 153251011, 153985993,
    153986119, 153993998, 153994118, 154010016, 154010124, 154010148, 154021994, 154034035,
    154034037, 154034039, 154034127, 154034129, 154034149, 154058062, 154058126, 154058134,
    154058150, 154065034, 154069034, 154073034, 154074076, 154074132, 154074136, 154074148,
    154076010, 154076074, 154077034, 154077066, 154077245, 154078238, 154080074, 154082085,
    154082133, 154082139, 154082151, 154084074, 154085082, 154088074, 154088232, 154089034,
    154089050, 154091082, 154092074, 154093213, 154095215, 154097082, 154097217, 154099219,
    154100074, 154101034, 154102198, 154105098, 154106108, 154106140, 154106144, 154106152,
    154107034, 154108106, 154109034, 154109082, 154110206, 154112106, 154114115, 154114141,
    154114143, 154114145, 154114151, 154115034, 154115114, 154116106, 154116196, 154117034,
    154117114, 154119114, 154120106, 154121114, 154121193, 154123243, 154124106, 154125034,
    154125114, 154125245, 154126222, 154127247, 154128106, 154128176, 154129114, 154129249,
    154130090, 154130133, 154130135, 154130149, 154130153, 154131114, 154131130, 154132180,
    154132212, 154133157, 154133173, 154133205, 154134230, 154135175, 154136216, 154138140,
    154138148, 154139114, 154139130, 154139211, 154140156, 154140188, 154141165, 154141181,
    154143167, 154143183, 154144192, 154145185, 154146149, 154146151, 154146986, 154147098,
    154147114, 154147130, 154147146, 154148164, 154148228, 154149157, 154149173, 154150246,
    154151159, 154151191, 154151223, 154152200, 154153177, 154155035, 154155115, 154155131,
    154155147, 154156170, 154157162, 154157178, 154157194, 154158186, 154159162, 154159178,
    154159194, 154161162, 154161178, 154161194, 154162155, 154164170, 154164202, 154164234,
    154165178, 154165194, 154167178, 154167194, 154168170, 154168202, 154168234, 154171131,
    154173178, 154173194, 154174186, 154175178, 154175194, 154175226, 154178155, 154178171,
    154180202, 154180234, 154181194, 154182186, 154182250, 154183194, 154187147, 154188202,
    154189194, 154189210, 154191194, 154193226, 154194155, 154194171, 154196202, 154196234,
    154203083, 154205226, 154206250, 154212234, 154222250, 154226187, 154226211, 154228234,
    154252012, 154986994, 154987120, 154987148, 154994999, 154995119, 155011017, 155011125,
    155011149, 155022995, 155035036, 155035038, 155035040, 155035124, 155035126, 155035128,
    155035130, 155035150, 155035987, 155036035, 155038035, 155040035, 155042035, 155044035,
    155046035, 155048035, 155056035, 155059063, 155059127, 155059135, 155059151, 155060035,
    155063987, 155065011, 155075077, 155075133, 155075137, 155075149, 155077011, 155077075,
    155078246, 155079239, 155081075, 155083086, 155083134, 155083140, 155083152, 155084035,
    155085075, 155089075, 155089233, 155092083, 155092212, 155093075, 155094214, 155096216,
    155098218, 155100220, 155101075, 155103199, 155107109, 155107141, 155107145, 155107153,
    155109107, 155111207, 155113011, 155113107, 155115116, 155115132, 155115142, 155115144,
    155115146, 155115152, 155116115, 155116188, 155117107, 155117197, 155120115, 155121107,
    155122194, 155124244, 155125107, 155126246, 155127223, 155128248, 155129107, 155129177,
    155130115, 155130250, 155131091, 155131132, 155131134, 155131136, 155131140, 155131148,
    155131150, 155131154, 155132156, 155132172, 155133181, 155133213, 155134158, 155134174,
    155134206, 155135231, 155136176, 155137217, 155138019, 155139027, 155139141, 155139149,
    155140164, 155140180, 155140212, 155141157, 155141189, 155142166, 155142182, 155144168,
    155144184, 155145193, 155146186, 155147148, 155147150, 155147152, 155148156, 155148172,
    155148188, 155149165, 155149229, 155150158, 155150174, 155151247, 155152160, 155152192,
    155152224, 155153201, 155154178, 155156163, 155156179, 155156195, 155157171, 155158163,
    155158179, 155158195, 155159187, 155160163, 155160179, 155160195, 155162163, 155162179,
    155162195, 155164179, 155164195, 155164227, 155165171, 155165203, 155165235, 155166179,
    155166195, 155168179, 155168195, 155169171, 155169203, 155169235, 155172179, 155172195,
    155174179, 155174195, 155175187, 155176179, 155176195, 155176227, 155180195, 155181203,
    155181235, 155182195, 155183187, 155183251, 155184195, 155188195, 155188227, 155189203,
    155190195, 155190211, 155192195, 155194227, 155197203, 155197235, 155204211, 155206227,
    155207251, 155213235, 155223251, 155229235, 155987995, 155994988, 155996000, 155996120,
    156008988, 156012018, 156012126, 156012150, 156022988, 156023004, 156023996, 156036037,
    156036039, 156036041, 156036129, 156036988, 156050988, 156060064, 156061004, 156064060,
    156064988, 156065036, 156065052, 156069036, 156071020, 156073036, 156076078, 156077036,
    156079247, 156080060, 156080240, 156081036, 156084087, 156084141, 156085036, 156088060,
    156089036, 156090234, 156091036, 156092988, 156093036, 156093084, 156096060, 156097036,
    156099004, 156100092, 156101036, 156101068, 156101221, 156104060, 156105020, 156105084,
    156106988, 156108110, 156109036, 156116092, 156117036, 156117052, 156117084, 156117116,
    156118198, 156120060, 156120988, 156121036, 156121100, 156121116, 156123068, 156125116,
    156127996, 156128060, 156128124, 156129036, 156129084, 156129116, 156130076, 156130108,
    156131036, 156131116, 156133132, 156134988, 156135036, 156135084, 156135100, 156135116,
    156135132, 156136060, 156136124, 156137004, 156137036, 156137116, 156137132, 156138076,
    156138108, 156139020, 156139036, 156139116, 156139132, 156141132, 156141213, 156142076,
    156142108, 156142140, 156143052, 156143116, 156143132, 156143996, 156144060, 156144124,
    156145036, 156145068, 156145116, 156145132, 156146076, 156146108, 156146140, 156147036,
    156147084, 156147116, 156147132, 156148988, 156149116, 156149132, 156149148, 156150076,
    156150108, 156150140, 156151036, 156151116, 156151132, 156151148, 156152060, 156152124,
    156153036, 156153084, 156153116, 156153132, 156153148, 156154076, 156154108, 156154140,
    156155036, 156155116, 156155132, 156155148, 156157037, 156157117, 156157133, 156157149,
    156158078, 156158110, 156158142, 156159039, 156159087, 156159119, 156159135, 156159151,
    156160000, 156160064, 156160128, 156161041, 156161121, 156161137, 156161153, 156162018,
    156162082, 156162114, 156162146, 156162995, 156163043, 156163107, 156163123, 156163139,
    156163155, 156164157, 156164159, 156164161, 156164163, 156165125, 156166118, 156166150,
    156167127, 156167143, 156168136, 156169065, 156169129, 156169145, 156170058, 156170090,
    156170122, 156170154, 156171051, 156171099, 156171131, 156171147, 156172158, 156172162,
    156172166, 156172170, 156173133, 156174094, 156175135, 156175151, 156176080, 156176144,
    156177057, 156177121, 156177137, 156177153, 156178130, 156179059, 156179139, 156179155,
    156180157, 156180159, 156180161, 156180163, 156180167, 156180169, 156180171, 156180173,
    156180175, 156180177, 156180179, 156181061, 156182134, 156183063, 156183143, 156184024,
    156184152, 156185065, 156185145, 156186042, 156186106, 156186138, 156187147, 156188160,
    156188168, 156188176, 156188184, 156189117, 156189149, 156190110, 156190991, 156191023,
    156191151, 156192032, 156193073, 156193153, 156194146, 156195075, 156195091, 156195123,
    156195155, 156196004, 156196157, 156196159, 156196161, 156196163, 156196169, 156196171,
    156196173, 156196175, 156196177, 156196179, 156196185, 156196187, 156196195, 156198150,
    156200104, 156200985, 156201001, 156202122, 156202154, 156204158, 156204162, 156204170,
    156204178, 156204186, 156204190, 156204194, 156205085, 156207087, 156208112, 156209089,
    156210130, 156211091, 156212163, 156212177, 156214134, 156218138, 156219051, 156219147,
    156221101, 156222142, 156223103, 156224064, 156225105, 156225153, 156226146, 156228159,
    156228189, 156228195, 156228207, 156228213, 156228219, 156230150, 156233113, 156233145,
    156234090, 156234154, 156235115, 156236158, 156236162, 156236182, 156236186, 156236190,
    156236194, 156236214, 156236218, 156236234, 156237117, 156240144, 156241041, 156243123,
    156244211, 156245125, 156247079, 156252160, 156252200, 156252224, 156252232, 156254014,
    156255135, 156988996, 156989122, 156997001, 156997121, 157013019, 157013127, 157024997,
    157037040, 157037042, 157037132, 157037989, 157038037, 157040037, 157042037, 157044037,
    157046037, 157048037, 157050037, 157052037, 157054037, 157056037, 157058037, 157060037,
    157061065, 157062037, 157065061, 157068037, 157072037, 157073061, 157076037, 157077079,
    157080037, 157080248, 157081061, 157081241, 157085088, 157085142, 157089061, 157091235,
    157092037, 157092053, 157097061, 157100220, 157101093, 157102222, 157104037, 157105061,
    157109111, 157110037, 157112037, 157117093, 157117118, 157117126, 157117148, 157118037,
    157119199, 157120037, 157121061, 157124069, 157124196, 157128037, 157128997, 157129061,
    157129125, 157130037, 157130085, 157130117, 157131077, 157131109, 157132252, 157133156,
    157134133, 157135989, 157136037, 157136085, 157136101, 157136117, 157136133, 157136997,
    157137061, 157137125, 157138005, 157138037, 157138117, 157138133, 157139077, 157139109,
    157142133, 157142214, 157143045, 157143077, 157143109, 157143141, 157144053, 157144117,
    157144133, 157144997, 157145061, 157145125, 157146037, 157146069, 157146117, 157146133,
    157147077, 157147109, 157147141, 157148188, 157149989, 157150117, 157150133, 157150149,
    157151013, 157151077, 157151109, 157151141, 157152037, 157152117, 157152133, 157152149,
    157152997, 157153061, 157153125, 157154037, 157154085, 157154117, 157154133, 157154149,
    157155077, 157155109, 157155141, 157156180, 157158038, 157158118, 157158134, 157158150,
    157159079, 157159111, 157159143, 157160040, 157160088, 157160120, 157160136, 157160152,
    157161001, 157161065, 157161129, 157162042, 157162122, 157162138, 157162154, 157163019,
    157163083, 157163115, 157163147, 157164165, 157164181, 157164197, 157165158, 157165160,
    157165162, 157166126, 157167119, 157167151, 157168128, 157168144, 157169137, 157170130,
    157170146, 157171059, 157171091, 157171123, 157171155, 157173159, 157173163, 157173167,
    157173171, 157174134, 157175095, 157176136, 157176152, 157177081, 157177145, 157178058,
    157178122, 157178138, 157178154, 157179131, 157181158, 157181160, 157181162, 157181168,
    157181170, 157181174, 157181176, 157181178, 157182062, 157183135, 157184064, 157184144,
    157185025, 157185153, 157186146, 157187043, 157187107, 157187139, 157189161, 157189169,
    157189177, 157189185, 157190150, 157191111, 157191992, 157192024, 157192152, 157193033,
    157194074, 157194154, 157195147, 157196124, 157196229, 157197158, 157197160, 157197162,
    157197170, 157197174, 157197176, 157197178, 157197186, 157199151, 157201105, 157201986,
    157202002, 157203123, 157203155, 157205159, 157205163, 157205171, 157205179, 157205187,
    157205191, 157205195, 157206086, 157208088, 157209113, 157210090, 157211131, 157213178,
    157215135, 157219139, 157222102, 157223143, 157224104, 157225065, 157226154, 157227147,
    157229160, 157229190, 157229208, 157229214, 157231151, 157234114, 157234146, 157235091,
    157235155, 157236116, 157237159, 157237163, 157237183, 157237187, 157237191, 157237195,
    157237215, 157237219, 157237235, 157241145, 157242042, 157244124, 157248080, 157253161,
    157253201, 157253225, 157253233, 157255015, 157989997, 157990123, 157998002, 157998122,
    158014020, 158014128, 158025998, 158038039, 158038041, 158038043, 158038133, 158062066,
    158069038, 158073038, 158077038, 158078080, 158078140, 158080014, 158080078, 158081038,
    158081070, 158081249, 158082242, 158084078, 158086143, 158088078, 158089086, 158092078,
    158092236, 158093038, 158093054, 158095086, 158096078, 158100078, 158101086, 158101221,
    158103070, 158103223, 158104078, 158105038, 158107086, 158108078, 158109102, 158110148,
    158110156, 158111038, 158112078, 158112110, 158113038, 158113086, 158114210, 158116078,
    158116110, 158118119, 158118149, 158119038, 158119086, 158119118, 158120078, 158120110,
    158120200, 158121038, 158121118, 158123102, 158123118, 158124110, 158125070, 158125086,
    158125118, 158125197, 158127118, 158128078, 158128110, 158129038, 158129118, 158129998,
    158130062, 158130126, 158131038, 158131086, 158131118, 158132180, 158133253, 158134157,
    158135118, 158135134, 158136078, 158136110, 158136990, 158137038, 158137086, 158137102,
    158137118, 158137134, 158137998, 158138062, 158138126, 158139006, 158139038, 158139118,
    158139134, 158140220, 158143118, 158143134, 158143215, 158144046, 158144078, 158144110,
    158144142, 158145054, 158145118, 158145134, 158145998, 158146062, 158146126, 158147038,
    158147070, 158147118, 158147134, 158148196, 158149189, 158150990, 158151102, 158151118,
    158151134, 158151150, 158152014, 158152078, 158152110, 158152142, 158153038, 158153118,
    158153134, 158153150, 158153998, 158154062, 158154126, 158155038, 158155086, 158155118,
    158155134, 158155150, 158156204, 158157181, 158159039, 158159119, 158159135, 158159151,
    158160080, 158160112, 158160144, 158161041, 158161089, 158161121, 158161137, 158161153,
    158162002, 158162066, 158162130, 158163043, 158163123, 158163139, 158163155, 158164020,
    158165166, 158165182, 158165198, 158166159, 158166161, 158166163, 158167127, 158168120,
    158168152, 158169129, 158169145, 158170138, 158171131, 158171147, 158172174, 158172206,
    158172238, 158174160, 158174168, 158175135, 158176096, 158177137, 158177153, 158178082,
    158178146, 158179059, 158179123, 158179139, 158179155, 158182159, 158182161, 158182163,
    158182169, 158182171, 158182175, 158182177, 158182179, 158183063, 158184136, 158185065,
    158185145, 158186026, 158186154, 158187147, 158188044, 158190162, 158190170, 158190178,
    158190186, 158191151, 158192112, 158192993, 158193025, 158193153, 158194034, 158195075,
    158195155, 158197125, 158197230, 158198159, 158198161, 158198163, 158198171, 158198175,
    158198177, 158198179, 158198187, 158200152, 158202987, 158203003, 158206160, 158206192,
    158207087, 158209089, 158210114, 158211091, 158214179, 158216136, 158223103, 158224144,
    158225105, 158227155, 158230161, 158230191, 158230209, 158230215, 158232152, 158235115,
    158235147, 158236092, 158237117, 158238160, 158238184, 158238192, 158238216, 158242146,
    158243043, 158245125, 158249081, 158254162, 158254202, 158254226, 158254234, 158990998,
    158991124, 158999003, 158999123, 159015021, 159015129, 159026999, 159039042, 159039044,
    159039132, 159039134, 159039991, 159040039, 159042039, 159044039, 159046039, 159048039,
    159050039, 159052039, 159054039, 159056039, 159058039, 159060039, 159062039, 159063067,
    159064039, 159067991, 159068039, 159068055, 159069015, 159076039, 159079081, 159079141,
    159080039, 159081015, 159081079, 159082250, 159083243, 159084039, 159085079, 159087090,
    159087144, 159087156, 159088039, 159089047, 159089079, 159093079, 159093237, 159096087,
    159097079, 159100039, 159100220, 159101079, 159102222, 159104071, 159104224, 159105079,
    159107063, 159108087, 159109079, 159111149, 159111157, 159112039, 159113079, 159113111,
    159115211, 159117015, 159117047, 159117079, 159117111, 159119120, 159119148, 159119150,
    159119156, 159120039, 159120087, 159120119, 159121079, 159121111, 159121201, 159124039,
    159124103, 159124119, 159125111, 159126198, 159128119, 159129079, 159129111, 159130039,
    159130119, 159130999, 159131063, 159131127, 159132252, 159133181, 159134254, 159135140,
    159135158, 159136119, 159136135, 159137079, 159137111, 159137991, 159138039, 159138087,
    159138103, 159138119, 159138135, 159138999, 159139063, 159139127, 159140180, 159141221,
    159144119, 159144135, 159144216, 159145047, 159145079, 159145111, 159145143, 159146055,
    159146119, 159146135, 159146999, 159147063, 159147127, 159148172, 159148188, 159149197,
    159150190, 159151156, 159151991, 159152103, 159152119, 159152135, 159152151, 159153015,
    159153079, 159153111, 159153143, 159154039, 159154119, 159154135, 159154151, 159154999,
    159155063, 159155127, 159156164, 159156196, 159156228, 159157205, 159158182, 159160040,
    159160120, 159160136, 159160152, 159161081, 159161113, 159161145, 159162042, 159162090,
    159162122, 159162138, 159162154, 159163003, 159163067, 159163131, 159164167, 159164183,
    159164199, 159166167, 159166183, 159166199, 159167160, 159167162, 159168128, 159169121,
    159169153, 159170130, 159170146, 159171139, 159172183, 159172199, 159173175, 159173207,
    159173239, 159175161, 159175169, 159176136, 159177097, 159178138, 159178154, 159179083,
    159179147, 159180183, 159180199, 159180231, 159183160, 159183162, 159183170, 159183176,
    159183178, 159184064, 159185137, 159186146, 159187027, 159187155, 159188199, 159191163,
    159191171, 159191179, 159191187, 159192152, 159193113, 159193994, 159194026, 159194154,
    159196199, 159198231, 159199160, 159199162, 159199176, 159199178, 159201153, 159207161,
    159207193, 159208088, 159210090, 159211115, 159217137, 159224104, 159225145, 159231162,
    159231192, 159231210, 159231216, 159233153, 159236116, 159237093, 159239161, 159239185,
    159239193, 159239217, 159243147, 159250082, 159255163, 159255203, 159255227, 159255235,
    159991999, 160000004, 160000124, 160016022, 160016130, 160028000, 160040041, 160040043,
    160040045, 160040133, 160040135, 160064068, 160064132, 160064140, 160064156, 160065040,
    160068992, 160069040, 160069056, 160077040, 160080082, 160080142, 160081040, 160083251,
    160084244, 160085040, 160088091, 160088145, 160088157, 160089040, 160094238, 160097088,
    160101040, 160101221, 160103223, 160105072, 160105225, 160108064, 160109088, 160112114,
    160112122, 160112150, 160112158, 160113040, 160116212, 160120121, 160120149, 160120151,
    160120157, 160121040, 160121088, 160121120, 160122202, 160124992, 160125040, 160125104,
    160125120, 160127199, 160129120, 160130080, 160130112, 160131040, 160131120, 160132228,
    160133253, 160134182, 160135255, 160136141, 160136159, 160137120, 160137136, 160138080,
    160138112, 160138992, 160139040, 160139088, 160139104, 160139120, 160139136, 160140236,
    160141181, 160142222, 160145120, 160145136, 160145217, 160146048, 160146080, 160146112,
    160146144, 160147056, 160147120, 160147136, 160149173, 160149189, 160150198, 160151191,
    160152157, 160152992, 160153104, 160153120, 160153136, 160153152, 160154016, 160154080,
    160154112, 160154144, 160155040, 160155120, 160155136, 160155152, 160156252, 160157165,
    160157197, 160157229, 160158206, 160159183, 160161041, 160161121, 160161137, 160161153,
    160162082, 160162114, 160162146, 160163043, 160163091, 160163123, 160163139, 160163155,
    160164004, 160164192, 160165168, 160165184, 160165200, 160167168, 160167184, 160167200,
    160168161, 160168163, 160169129, 160170122, 160170154, 160171131, 160171147, 160173184,
    160173200, 160174176, 160174208, 160174240, 160176162, 160176170, 160177137, 160179139,
    160179155, 160180192, 160181184, 160181200, 160181232, 160184161, 160184163, 160184171,
    160184177, 160184179, 160185065, 160186138, 160187147, 160188192, 160189200, 160193153,
    160194114, 160194995, 160195027, 160195155, 160197200, 160199232, 160200161, 160200163,
    160200177, 160200179, 160202154, 160208162, 160208194, 160209089, 160211091, 160218138,
    160225105, 160226146, 160232163, 160232193, 160232211, 160232217, 160234154, 160237117,
    160240162, 160240186, 160240194, 160240218, 160251083, 160993000, 160993126, 161001005,
    161001125, 161017023, 161017131, 161029001, 161041044, 161041046, 161041132, 161041134,
    161041136, 161041156, 161041993, 161042041, 161044041, 161046041, 161048041, 161050041,
    161052041, 161054041, 161056041, 161058041, 161060041, 161062041, 161064041, 161065069,
    161065133, 161065141, 161065157, 161072041, 161076041, 161080041, 161081033, 161081083,
    161081143, 161084041, 161084252, 161085245, 161089092, 161089140, 161089146, 161089158,
    161095239, 161096041, 161096057, 161100220, 161102222, 161104224, 161106226, 161108041,
    161109065, 161113115, 161113123, 161113151, 161113159, 161114041, 161116041, 161117213,
    161121122, 161121148, 161121150, 161121152, 161121158, 161122041, 161123203, 161124041,
    161128200, 161130121, 161131081, 161131113, 161132252, 161133229, 161134254, 161135183,
    161137140, 161137142, 161137156, 161137160, 161138121, 161138137, 161139081, 161139113,
    161140164, 161140180, 161140212, 161141237, 161142182, 161143223, 161146121, 161146137,
    161146218, 161147049, 161147081, 161147113, 161147145, 161148172, 161148188, 161150174,
    161150190, 161151199, 161152192, 161153156, 161153158, 161153993, 161154105, 161154121,
    161154137, 161154153, 161155017, 161155081, 161155113, 161155145, 161156164, 161156180,
    161157253, 161158166, 161158198, 161158230, 161159207, 161160184, 161162042, 161162122,
    161162138, 161162154, 161163083, 161163115, 161163147, 161164169, 161164185, 161164201,
    161165193, 161166169, 161166185, 161166201, 161168169, 161168185, 161168201, 161169162,
    161170130, 161171123, 161171155, 161172185, 161172201, 161174185, 161174201, 161175177,
    161175209, 161175241, 161177163, 161177171, 161178138, 161180185, 161180201, 161181193,
    161182185, 161182201, 161182233, 161185162, 161185178, 161187139, 161188201, 161189193,
    161190201, 161194154, 161195115, 161196201, 161196217, 161198201, 161200233, 161201162,
    161201178, 161203155, 161209163, 161209195, 161210090, 161212233, 161219139, 161227147,
    161233194, 161233218, 161235155, 161241163, 161241187, 161241195, 161241219, 161994001,
    161994127, 162002006, 162002126, 162018024, 162018132, 162018156, 162030002, 162042043,
    162042045, 162042047, 162042133, 162042135, 162042137, 162042157, 162051986, 162065042,
    162066070, 162066134, 162066142, 162066158, 162073042, 162077042, 162081042, 162082084,
    162082140, 162082144, 162082156, 162084018, 162084082, 162085042, 162085074, 162085253,
    162086246, 162088082, 162090093, 162090141, 162090147, 162090159, 162092082, 162093090,
    162096082, 162096240, 162097042, 162097058, 162099090, 162100082, 162101221, 162103223,
    162105090, 162105225, 162107227, 162108082, 162109042, 162110206, 162113106, 162114116,
    162114148, 162114152, 162114160, 162115042, 162116114, 162117042, 162117090, 162118214,
    162120114, 162122123, 162122149, 162122151, 162122153, 162122159, 162123042, 162123122,
    162124114, 162124204, 162125042, 162125122, 162127122, 162128114, 162129122, 162129201,
    162131122, 162133253, 162134230, 162135255, 162136114, 162136184, 162137122, 162138098,
    162138141, 162138143, 162138157, 162138161, 162139122, 162139138, 162140188, 162140220,
    162141165, 162141181, 162141213, 162142238, 162143183, 162144224, 162146148, 162146156,
    162147122, 162147138, 162147219, 162148164, 162148196, 162149173, 162149189, 162151175,
    162151191, 162152200, 162153193, 162154157, 162154159, 162154994, 162155106, 162155122,
    162155138, 162155154, 162156172, 162156236, 162157165, 162157181, 162158254, 162159167,
    162159199, 162159231, 162160208, 162161185, 162163043, 162163123, 162163139, 162163155,
    162164178, 162165170, 162165186, 162165202, 162166194, 162167170, 162167186, 162167202,
    162169170, 162169186, 162169202, 162170163, 162171131, 162172178, 162172210, 162172242,
    162173186, 162173202, 162175186, 162175202, 162176178, 162176210, 162176242, 162179139,
    162181186, 162181202, 162182194, 162183186, 162183202, 162183234, 162186163, 162186179,
    162188210, 162188242, 162189202, 162190194, 162191202, 162195155, 162196210, 162197202,
    162197218, 162199202, 162201234, 162202163, 162202179, 162204210, 162204242, 162211091,
    162213234, 162220242, 162234195, 162234219, 162236242, 162995002, 162995128, 162995156,
    163003007, 163003127, 163019025, 163019133, 163019157, 163031003, 163043044, 163043046,
    163043048, 163043132, 163043134, 163043136, 163043138, 163043158, 163043995, 163044043,
    163046043, 163048043, 163050043, 163052043, 163054043, 163056043, 163064043, 163065051,
    163067071, 163067135, 163067143, 163067159, 163068043, 163071995, 163073019, 163083085,
    163083141, 163083145, 163083157, 163085019, 163085083, 163086254, 163087247, 163089083,
    163091094, 163091142, 163091148, 163091160, 163092043, 163093083, 163097083, 163097241,
    163100091, 163100220, 163101083, 163102222, 163104224, 163106226, 163108228, 163109083,
    163111207, 163115117, 163115149, 163115153, 163115161, 163117115, 163119215, 163121019,
    163121115, 163123124, 163123132, 163123140, 163123150, 163123152, 163123154, 163123160,
    163124123, 163124196, 163125115, 163125205, 163128123, 163129115, 163130123, 163130202,
    163132252, 163134254, 163135231, 163137115, 163137185, 163138123, 163139099, 163139140,
    163139142, 163139144, 163139148, 163139156, 163139158, 163139162, 163140164, 163140180,
    163141189, 163141221, 163142166, 163142182, 163142214, 163143239, 163144184, 163145225,
    163146027, 163147035, 163147149, 163147157, 163148172, 163148188, 163148220, 163149165,
    163149197, 163150174, 163150190, 163152176, 163152192, 163153201, 163154194, 163155156,
    163155158, 163155160, 163156164, 163156180, 163156196, 163157173, 163157237, 163158166,
    163158182, 163159255, 163160168, 163160200, 163160232, 163161209, 163162186, 163164171,
    163164187, 163164203, 163165179, 163166171, 163166187, 163166203, 163167195, 163168171,
    163168187, 163168203, 163170171, 163170187, 163170203, 163172187, 163172203, 163172235,
    163173179, 163173211, 163173243, 163174187, 163174203, 163176187, 163176203, 163177179,
    163177211, 163177243, 163180187, 163180203, 163182187, 163182203, 163183195, 163184187,
    163184203, 163184235, 163188203, 163189211, 163189243, 163190203, 163191195, 163192203,
    163196203, 163196235, 163197211, 163198203, 163198219, 163200203, 163202235, 163205211,
    163205243, 163212219, 163214235, 163221243, 163237243, 163996003, 164002996, 164004008,
    164004128, 164016996, 164020026, 164020134, 164020158, 164030996, 164031012, 164032004,
    164044045, 164044047, 164044049, 164044133, 164044137, 164044996, 164053988, 164058996,
    164065044, 164068072, 164069012, 164069044, 164072068, 164072996, 164073044, 164073060,
    164077044, 164079028, 164081044, 164084086, 164085044, 164087255, 164088068, 164088248,
    164089044, 164092095, 164092149, 164093044, 164096068, 164097044, 164098242, 164099044,
    164100996, 164101044, 164101092, 164104068, 164105044, 164107012, 164108100, 164109044,
    164109076, 164109229, 164112068, 164113028, 164113092, 164114996, 164116118, 164117044,
    164124100, 164124133, 164125044, 164125060, 164125092, 164125124, 164126206, 164128068,
    164128996, 164129044, 164129108, 164129124, 164130084, 164130116, 164131044, 164131076,
    164131092, 164131124, 164136004, 164136068, 164136132, 164137044, 164137092, 164137124,
    164138084, 164138116, 164139044, 164139124, 164141140, 164142996, 164143044, 164143092,
    164143108, 164143124, 164143140, 164144068, 164144132, 164145012, 164145044, 164145124,
    164145140, 164146084, 164146116, 164147028, 164147044, 164147124, 164147140, 164149140,
    164149221, 164150084, 164150116, 164150148, 164151060, 164151124, 164151140, 164152004,
    164152068, 164152132, 164153044, 164153076, 164153124, 164153140, 164154084, 164154116,
    164154148, 164155044, 164155092, 164155124, 164155140, 164156996, 164157124, 164157140,
    164157156, 164158084, 164158116, 164158148, 164159044, 164159124, 164159140, 164159156,
    164160068, 164160132, 164161044, 164161092, 164161124, 164161140, 164161156, 164162084,
    164162116, 164162148, 164163044, 164163124, 164163140, 164163156, 164165045, 164165125,
    164165141, 164165157, 164166086, 164166118, 164166150, 164167047, 164167095, 164167127,
    164167143, 164167159, 164168008, 164168072, 164168136, 164169049, 164169129, 164169145,
    164169161, 164170026, 164170090, 164170122, 164170154, 164171003, 164171051, 164171115,
    164171131, 164171147, 164171163, 164172165, 164172167, 164172169, 164172171, 164173133,
    164174126, 164174158, 164175135, 164175151, 164176144, 164177073, 164177137, 164177153,
    164178066, 164178098, 164178130, 164178162, 164179059, 164179107, 164179139, 164179155,
    164180166, 164180170, 164180174, 164180178, 164181141, 164182102, 164183143, 164183159,
    164184088, 164184152, 164185065, 164185129, 164185145, 164185161, 164186138, 164187067,
    164187147, 164187163, 164188165, 164188167, 164188169, 164188171, 164188175, 164188177,
    164188179, 164188181, 164188183, 164188185, 164188187, 164189069, 164190142, 164191071,
    164191151, 164192032, 164192160, 164193073, 164193153, 164194050, 164194114, 164194146,
    164195155, 164196168, 164196176, 164196184, 164196192, 164197125, 164197157, 164198118,
    164198999, 164199031, 164199159, 164200040, 164201081, 164201161, 164202154, 164203083,
    164203099, 164203131, 164203163, 164204012, 164204165, 164204167, 164204169, 164204171,
    164204177, 164204179, 164204181, 164204183, 164204185, 164204187, 164204193, 164204195,
    164204203, 164206158, 164208112, 164208993, 164209009, 164210130, 164210162, 164212166,
    164212170, 164212178, 164212186, 164212194, 164212198, 164212202, 164213093, 164215095,
    164216120, 164217097, 164218138, 164219099, 164220171, 164220185, 164222142, 164226146,
    164227059, 164227155, 164229109, 164230150, 164231111, 164232072, 164233113, 164233161,
    164234154, 164236167, 164236197, 164236203, 164236215, 164236221, 164236227, 164238158,
    164241121, 164241153, 164242098, 164242162, 164243123, 164244166, 164244170, 164244190,
    164244194, 164244198, 164244202, 164244222, 164244226, 164244242, 164245125, 164248152,
    164249049, 164251131, 164252219, 164255087, 164997004, 165005009, 165005129, 165021027,
    165021135, 165045048, 165045050, 165045140, 165045997, 165046045, 165048045, 165050045,
    165052045, 165054045, 165056045, 165058045, 165060045, 165062045, 165064045, 165068045,
    165069073, 165073069, 165076045, 165080045, 165084045, 165085037, 165085087, 165088045,
    165089069, 165089249, 165093096, 165093150, 165097069, 165099243, 165100045, 165100061,
    165105069, 165108228, 165109101, 165110230, 165112045, 165113069, 165117119, 165118045,
    165120045, 165125101, 165125126, 165125132, 165125134, 165125156, 165126045, 165127207,
    165128045, 165129069, 165129997, 165130045, 165130109, 165130125, 165131085, 165131117,
    165132204, 165136045, 165137005, 165137069, 165137133, 165138045, 165138093, 165138125,
    165139085, 165139117, 165141164, 165142141, 165143997, 165144045, 165144093, 165144109,
    165144125, 165144141, 165145005, 165145069, 165145133, 165146013, 165146045, 165146125,
    165146141, 165147085, 165147117, 165150141, 165150222, 165151053, 165151085, 165151117,
    165151149, 165152061, 165152125, 165152141, 165153005, 165153069, 165153133, 165154045,
    165154077, 165154125, 165154141, 165155085, 165155117, 165155149, 165156196, 165157997,
    165158125, 165158141, 165158157, 165159021, 165159085, 165159117, 165159149, 165160045,
    165160125, 165160141, 165160157, 165161005, 165161069, 165161133, 165162045, 165162093,
    165162125, 165162141, 165162157, 165163085, 165163117, 165163149, 165164188, 165166046,
    165166126, 165166142, 165166158, 165167087, 165167119, 165167151, 165168048, 165168096,
    165168128, 165168144, 165168160, 165169009, 165169073, 165169137, 165170050, 165170130,
    165170146, 165170162, 165171027, 165171091, 165171123, 165171155, 165172173, 165172189,
    165172205, 165173166, 165173168, 165173170, 165174134, 165175127, 165175159, 165176136,
    165176152, 165177145, 165178138, 165178154, 165179067, 165179099, 165179131, 165179163,
    165181167, 165181171, 165181175, 165181179, 165182142, 165183103, 165184144, 165184160,
    165185089, 165185153, 165186066, 165186130, 165186146, 165186162, 165187139, 165189166,
    165189168, 165189170, 165189176, 165189178, 165189182, 165189184, 165189186, 165190070,
    165191143, 165192072, 165192152, 165193033, 165193161, 165194154, 165195051, 165195115,
    165195147, 165197169, 165197177, 165197185, 165197193, 165198158, 165199119, 165200000,
    165200032, 165200160, 165201041, 165202082, 165202162, 165203155, 165204237, 165205166,
    165205168, 165205170, 165205178, 165205182, 165205184, 165205186, 165205194, 165207159,
    165209113, 165209994, 165210010, 165211131, 165211163, 165213167, 165213171, 165213179,
    165213187, 165213195, 165213199, 165213203, 165214094, 165216096, 165217121, 165218098,
    165219139, 165221186, 165223143, 165227147, 165230110, 165231151, 165232112, 165233073,
    165234162, 165235155, 165237168, 165237198, 165237216, 165237222, 165239159, 165242122,
    165242154, 165243099, 165243163, 165244124, 165245167, 165245171, 165245191, 165245195,
    165245199, 165245203, 165245223, 165245227, 165245243, 165249153, 165250050, 165998005,
    166006010, 166006130, 166022028, 166022136, 166034006, 166046047, 166046049, 166046051,
    166046141, 166055990, 166065046, 166069046, 166070074, 166077046, 166081046, 166085046,
    166086088, 166086148, 166088022, 166088086, 166089046, 166089078, 166090250, 166092086,
    166094151, 166096086, 166097094, 166100086, 166100244, 166101046, 166101062, 166103094,
    166104086, 166108086, 166109094, 166109229, 166111078, 166111231, 166112086, 166113046,
    166114070, 166115094, 166116086, 166117110, 166118156, 166118164, 166119046, 166120086,
    166120118, 166121046, 166121094, 166122218, 166124086, 166124118, 166126127, 166126157,
    166127046, 166127094, 166127126, 166128086, 166128118, 166128208, 166129046, 166129126,
    166130006, 166130070, 166130998, 166131046, 166131110, 166131126, 166133205, 166135126,
    166136086, 166136118, 166137046, 166137126, 166138006, 166138070, 166138134, 166139046,
    166139094, 166139126, 166140188, 166142165, 166143126, 166143142, 166144086, 166144118,
    166144998, 166145046, 166145094, 166145110, 166145126, 166145142, 166146006, 166146070,
    166146134, 166147014, 166147046, 166147126, 166147142, 166148228, 166151126, 166151142,
    166151223, 166152054, 166152086, 166152118, 166152150, 166153062, 166153126, 166153142,
    166154006, 166154070, 166154134, 166155046, 166155078, 166155126, 166155142, 166156204,
    166157197, 166158998, 166159110, 166159126, 166159142, 166159158, 166160022, 166160086,
    166160118, 166160150, 166161046, 166161126, 166161142, 166161158, 166162006, 166162070,
    166162134, 166163046, 166163094, 166163126, 166163142, 166163158, 166164212, 166165189,
    166167047, 166167127, 166167143, 166167159, 166168088, 166168120, 166168152, 166169049,
    166169097, 166169129, 166169145, 166169161, 166170010, 166170074, 166170138, 166171051,
    166171131, 166171147, 166171163, 166172028, 166173174, 166173190, 166173206, 166174167,
    166174169, 166174171, 166175135, 166176128, 166176160, 166177137, 166177153, 166178146,
    166179139, 166179155, 166180182, 166180214, 166180246, 166182168, 166182176, 166183143,
    166184104, 166185145, 166185161, 166186090, 166186154, 166187067, 166187131, 166187147,
    166187163, 166190167, 166190169, 166190171, 166190177, 166190179, 166190183, 166190185,
    166190187, 166191071, 166192144, 166193073, 166193153, 166194034, 166194162, 166195155,
    166196052, 166198170, 166198178, 166198186, 166198194, 166199159, 166200120, 166201001,
    166201033, 166201161, 166202042, 166203083, 166203163, 166205238, 166206167, 166206169,
    166206171, 166206179, 166206183, 166206185, 166206187, 166206195, 166208160, 166210995,
    166211011, 166214168, 166214200, 166215095, 166217097, 166218122, 166219099, 166222187,
    166224144, 166231111, 166232152, 166233113, 166235163, 166238169, 166238199, 166238217,
    166238223, 166240160, 166243123, 166243155, 166244100, 166245125, 166246168, 166246192,
    166246200, 166246224, 166250154, 166251051, 166999006, 166999132, 167007011, 167007131,
    167023029, 167023137, 167047050, 167047052, 167047140, 167047142, 167047999, 167048047,
    167050047, 167052047, 167054047, 167056047, 167058047, 167060047, 167062047, 167064047,
    167065023, 167068047, 167069055, 167071075, 167072047, 167075999, 167076047, 167076063,
    167077023, 167084047, 167087089, 167087149, 167088047, 167089023, 167089087, 167091251,
    167092047, 167093087, 167095098, 167095152, 167095164, 167096047, 167097055, 167097087,
    167101087, 167101245, 167104095, 167105087, 167108047, 167108228, 167109087, 167110230,
    167112079, 167112232, 167113087, 167115071, 167116095, 167117087, 167119157, 167119165,
    167120047, 167121087, 167121119, 167123219, 167125023, 167125055, 167125087, 167125119,
    167127128, 167127156, 167127158, 167127164, 167128047, 167128095, 167128127, 167129087,
    167129119, 167129209, 167130047, 167130127, 167131007, 167131071, 167134206, 167136127,
    167137087, 167137119, 167138047, 167138127, 167139007, 167139071, 167139135, 167141189,
    167143148, 167143166, 167144127, 167144143, 167145087, 167145119, 167145999, 167146047,
    167146095, 167146111, 167146127, 167146143, 167147007, 167147071, 167147135, 167148188,
    167149229, 167152127, 167152143, 167152224, 167153055, 167153087, 167153119, 167153151,
    167154063, 167154127, 167154143, 167155007, 167155071, 167155135, 167156180, 167156196,
    167157205, 167158198, 167159164, 167159999, 167160111, 167160127, 167160143, 167160159,
    167161023, 167161087, 167161119, 167161151, 167162047, 167162127, 167162143, 167162159,
    167163007, 167163071, 167163135, 167164172, 167164204, 167164236, 167165213, 167166190,
    167168048, 167168128, 167168144, 167168160, 167169089, 167169121, 167169153, 167170050,
    167170098, 167170130, 167170146, 167170162, 167171011, 167171075, 167171139, 167172175,
    167172191, 167172207, 167174175, 167174191, 167174207, 167175168, 167175170, 167176136,
    167177129, 167177161, 167178138, 167178154, 167179147, 167180191, 167180207, 167181183,
    167181215, 167181247, 167183169, 167183177, 167184144, 167185105, 167186146, 167186162,
    167187091, 167187155, 167188191, 167188207, 167188239, 167191168, 167191170, 167191178,
    167191184, 167191186, 167192072, 167193145, 167194154, 167195163, 167196207, 167199171,
    167199179, 167199187, 167199195, 167200160, 167201121, 167202002, 167202034, 167202162,
    167204207, 167206239, 167207168, 167207170, 167207184, 167207186, 167209161, 167215169,
    167215201, 167216096, 167218098, 167219123, 167225145, 167232112, 167233153, 167239170,
    167239200, 167239218, 167239224, 167241161, 167244124, 167245101, 167247169, 167247193,
    167247201, 167247225, 167251155, 168000007, 168000133, 168008012, 168008132, 168024030,
    168024138, 168036008, 168048049, 168048051, 168048053, 168048141, 168048143, 168057992,
    168065048, 168069048, 168072076, 168072140, 168072148, 168072164, 168073048, 168077000,
    168077048, 168077064, 168085048, 168088090, 168088150, 168089048, 168092252, 168093048,
    168096099, 168096153, 168096165, 168097048, 168102246, 168105096, 168109048, 168109229,
    168111231, 168113080, 168113233, 168116072, 168117096, 168120122, 168120158, 168120166,
    168121048, 168124220, 168128129, 168128157, 168128159, 168128165, 168129048, 168129096,
    168129128, 168130088, 168130120, 168130210, 168131048, 168131128, 168135207, 168137128,
    168138088, 168138120, 168139048, 168139128, 168140236, 168142190, 168144149, 168144167,
    168145128, 168145144, 168146088, 168146120, 168147000, 168147048, 168147096, 168147112,
    168147128, 168147144, 168148244, 168149189, 168150230, 168153128, 168153144, 168153225,
    168154056, 168154088, 168154120, 168154152, 168155064, 168155128, 168155144, 168157181,
    168157197, 168158206, 168159199, 168160165, 168161000, 168161112, 168161128, 168161144,
    168161160, 168162024, 168162088, 168162120, 168162152, 168163048, 168163128, 168163144,
    168163160, 168165173, 168165205, 168165237, 168166214, 168167191, 168169049, 168169129,
    168169145, 168169161, 168170090, 168170122, 168170154, 168171051, 168171099, 168171131,
    168171147, 168171163, 168172012, 168172200, 168173176, 168173192, 168173208, 168175176,
    168175192, 168175208, 168176169, 168176171, 168177137, 168178130, 168178162, 168179139,
    168179155, 168181192, 168181208, 168182184, 168182216, 168182248, 168184170, 168184178,
    168185145, 168187147, 168187163, 168188200, 168189192, 168189208, 168189240, 168192169,
    168192171, 168192179, 168192185, 168192187, 168193073, 168194146, 168195155, 168196200,
    168197208, 168201161, 168202122, 168203003, 168203035, 168203163, 168205208, 168207240,
    168208169, 168208171, 168208185, 168208187, 168210162, 168216170, 168216202, 168217097,
    168219099, 168226146, 168233113, 168234154, 168240171, 168240201, 168240219, 168240225,
    168242162, 168245125, 168248170, 168248194, 168248202, 168248226, 169001008, 169001134,
    169009013, 169009133, 169025031, 169025139, 169049052, 169049054, 169049140, 169049142,
    169049144, 169049164, 169050001, 169050033, 169050049, 169052049, 169054049, 169056049,
    169058049, 169060049, 169062049, 169064049, 169068049, 169072049, 169073077, 169073141,
    169073149, 169073165, 169080049, 169084049, 169088049, 169089041, 169089091, 169089151,
    169092049, 169093253, 169097100, 169097148, 169097154, 169097166, 169103247, 169104049,
    169108228, 169110230, 169112232, 169114234, 169116049, 169117073, 169121123, 169121159,
    169121167, 169122049, 169124049, 169125221, 169129130, 169129156, 169129158, 169129160,
    169129166, 169130049, 169130097, 169130129, 169131089, 169131121, 169131211, 169136208,
    169138129, 169139089, 169139121, 169141237, 169143191, 169145148, 169145150, 169145164,
    169145168, 169146129, 169146145, 169147089, 169147121, 169148172, 169148188, 169148220,
    169149245, 169150190, 169151231, 169154129, 169154145, 169154226, 169155057, 169155089,
    169155121, 169155153, 169156180, 169156196, 169158182, 169158198, 169159207, 169160200,
    169161164, 169161166, 169162001, 169162113, 169162129, 169162145, 169162161, 169163025,
    169163089, 169163121, 169163153, 169164172, 169164188, 169166174, 169166206, 169166238,
    169167215, 169168192, 169170050, 169170130, 169170146, 169170162, 169171091, 169171123,
    169171155, 169172177, 169172193, 169172209, 169173201, 169174177, 169174193, 169174209,
    169176177, 169176193, 169176209, 169176985, 169177170, 169178138, 169179131, 169179163,
    169180193, 169180209, 169182193, 169182209, 169183185, 169183217, 169183249, 169185171,
    169185179, 169186146, 169188193, 169188209, 169189201, 169190193, 169190209, 169190241,
    169193170, 169193186, 169195147, 169196209, 169197201, 169198209, 169202162, 169203123,
    169204209, 169204225, 169206209, 169208241, 169209170, 169209186, 169211163, 169217171,
    169217203, 169218098, 169220241, 169227147, 169235155, 169241202, 169241226, 169243163,
    169249171, 169249195, 169249203, 169249227, 170002009, 170002135, 170010014, 170010134,
    170026032, 170026140, 170026164, 170038010, 170050051, 170050053, 170050055, 170050141,
    170050143, 170050145, 170050165, 170059994, 170065050, 170069050, 170073050, 170074078,
    170074142, 170074150, 170074166, 170081050, 170085050, 170089050, 170090092, 170090148,
    170090152, 170090164, 170092026, 170092090, 170093050, 170093082, 170094254, 170096090,
    170098101, 170098149, 170098155, 170098167, 170100090, 170100986, 170101098, 170104090,
    170104248, 170105050, 170105066, 170107098, 170108090, 170109229, 170111231, 170113098,
    170113233, 170115235, 170116090, 170117050, 170118214, 170121114, 170122124, 170122132,
    170122156, 170122160, 170122168, 170123050, 170124122, 170125050, 170125098, 170126222,
    170128122, 170130106, 170130131, 170130157, 170130159, 170130161, 170130167, 170131050,
    170131066, 170131098, 170131130, 170132212, 170136122, 170137209, 170139130, 170142238,
    170144122, 170144192, 170146106, 170146149, 170146151, 170146165, 170146169, 170147130,
    170147146, 170148196, 170148228, 170149173, 170149189, 170149221, 170150246, 170151191,
    170152232, 170154156, 170154164, 170155130, 170155146, 170155227, 170156172, 170156204,
    170157181, 170157197, 170159183, 170159199, 170160208, 170161201, 170162165, 170162167,
    170163002, 170163114, 170163130, 170163146, 170163162, 170164180, 170164244, 170165173,
    170165189, 170167175, 170167207, 170167239, 170168216, 170169193, 170171051, 170171131,
    170171147, 170171163, 170172186, 170173178, 170173194, 170173210, 170174202, 170175178,
    170175194, 170175210, 170177178, 170177194, 170177210, 170177986, 170178171, 170179139,
    170180186, 170180218, 170180250, 170181194, 170181210, 170183194, 170183210, 170184186,
    170184218, 170184250, 170187147, 170189194, 170189210, 170190202, 170191194, 170191210,
    170191242, 170194171, 170194187, 170196218, 170196250, 170197210, 170198202, 170199210,
    170203163, 170204218, 170205210, 170205226, 170207210, 170209242, 170210171, 170210187,
    170212218, 170212250, 170219099, 170221242, 170228250, 170242203, 170242227, 170244250,
    171003010, 171003136, 171003164, 171011015, 171011135, 171027033, 171027141, 171027165,
    171051052, 171051054, 171051056, 171051140, 171051142, 171051144, 171051146, 171051166,
    171052003, 171052051, 171054051, 171056051, 171058051, 171060051, 171062051, 171064051,
    171069027, 171072051, 171073059, 171075079, 171075143, 171075151, 171075167, 171076051,
    171080003, 171081027, 171091093, 171091149, 171091153, 171091165, 171093027, 171093091,
    171095255, 171097091, 171099102, 171099150, 171099156, 171099168, 171100051, 171101091,
    171105091, 171105249, 171108099, 171108228, 171109091, 171110230, 171112232, 171114234,
    171116236, 171117091, 171119215, 171123125, 171123133, 171123157, 171123161, 171123169,
    171125123, 171127223, 171129027, 171129123, 171131107, 171131132, 171131140, 171131148,
    171131156, 171131158, 171131160, 171131162, 171131164, 171131168, 171132204, 171133213,
    171137123, 171138210, 171143239, 171145123, 171145193, 171147107, 171147148, 171147150,
    171147152, 171147156, 171147164, 171147166, 171147170, 171148172, 171148188, 171149197,
    171149229, 171150174, 171150190, 171150222, 171151247, 171152192, 171153233, 171155043,
    171155157, 171155165, 171156180, 171156196, 171156228, 171157173, 171157205, 171158182,
    171158198, 171160184, 171160200, 171161209, 171162202, 171163164, 171163166, 171163168,
    171164172, 171164188, 171164204, 171165181, 171165245, 171166174, 171166190, 171168176,
    171168208, 171168240, 171169217, 171170194, 171172179, 171172195, 171172211, 171173187,
    171174179, 171174195, 171174211, 171175203, 171176179, 171176195, 171176211, 171178179,
    171178195, 171178211, 171178987, 171180195, 171180211, 171180243, 171181187, 171181219,
    171181251, 171182195, 171182211, 171184195, 171184211, 171185187, 171185219, 171185251,
    171188195, 171188211, 171190195, 171190211, 171191203, 171192195, 171192211, 171192243,
    171196211, 171197219, 171197251, 171198211, 171199203, 171200211, 171204211, 171204243,
    171205219, 171206211, 171206227, 171208211, 171210243, 171213219, 171213251, 171220227,
    171222243, 171229251, 171245251, 172004011, 172011004, 172012016, 172012136, 172025004,
    172028034, 172028142, 172028166, 172039004, 172040012, 172052053, 172052055, 172052057,
    172052141, 172052145, 172053004, 172061996, 172065052, 172067004, 172069052, 172073052,
    172076080, 172077020, 172077052, 172080076, 172081004, 172081052, 172081068, 172085052,
    172087036, 172089052, 172092094, 172093052, 172096076, 172097052, 172100103, 172100157,
    172101052, 172102988, 172104076, 172105052, 172106250, 172107052, 172109004, 172109052,
    172109100, 172112076, 172113052, 172115020, 172116108, 172117052, 172117084, 172117237,
    172120076, 172121036, 172121100, 172123004, 172124126, 172125052, 172130028, 172130060,
    172130092, 172130124, 172131052, 172132133, 172133132, 172134214, 172135132, 172136076,
    172137004, 172137052, 172137116, 172137132, 172138092, 172138124, 172139052, 172139084,
    172139100, 172139132, 172141132, 172143132, 172144012, 172144076, 172144140, 172145052,
    172145100, 172145132, 172146092, 172146124, 172147052, 172147132, 172148988, 172149132,
    172149148, 172151004, 172151052, 172151100, 172151116, 172151132, 172151148, 172152076,
    172152140, 172153020, 172153052, 172153132, 172153148, 172154092, 172154124, 172155036,
    172155052, 172155132, 172155148, 172157132, 172157148, 172157229, 172158092, 172158124,
    172158156, 172159068, 172159132, 172159148, 172160012, 172160076, 172160140, 172161052,
    172161084, 172161132, 172161148, 172162092, 172162124, 172162156, 172163052, 172163100,
    172163132, 172163148, 172165004, 172165132, 172165148, 172165164, 172166092, 172166124,
    172166156, 172167052, 172167132, 172167148, 172167164, 172168076, 172168140, 172169052,
    172169100, 172169132, 172169148, 172169164, 172170092, 172170124, 172170156, 172171052,
    172171132, 172171148, 172171164, 172173053, 172173133, 172173149, 172173165, 172174094,
    172174126, 172174158, 172175055, 172175103, 172175135, 172175151, 172175167, 172176016,
    172176080, 172176144, 172177057, 172177137, 172177153, 172177169, 172178034, 172178098,
    172178130, 172178162, 172179011, 172179059, 172179123, 172179139, 172179155, 172179171,
    172179988, 172180173, 172180175, 172180177, 172180179, 172181141, 172182134, 172182166,
    172183143, 172183159, 172184152, 172185081, 172185145, 172185161, 172186074, 172186106,
    172186138, 172186170, 172186987, 172187067, 172187115, 172187147, 172187163, 172188174,
    172188178, 172188182, 172188186, 172189149, 172190110, 172191151, 172191167, 172192096,
    172192160, 172193073, 172193137, 172193153, 172193169, 172194146, 172195075, 172195155,
    172195171, 172196173, 172196175, 172196177, 172196179, 172196183, 172196185, 172196187,
    172196189, 172196191, 172196193, 172196195, 172197077, 172198150, 172199079, 172199159,
    172200040, 172200168, 172201081, 172201161, 172202058, 172202122, 172202154, 172203163,
    172204176, 172204184, 172204192, 172204200, 172205165, 172206126, 172207007, 172207039,
    172207167, 172208048, 172209089, 172209169, 172210130, 172210162, 172211091, 172211107,
    172211139, 172211171, 172212020, 172212173, 172212175, 172212177, 172212179, 172212185,
    172212187, 172212189, 172212191, 172212193, 172212195, 172212201, 172212203, 172212211,
    172214166, 172216120, 172217001, 172217017, 172218138, 172218170, 172220174, 172220178,
    172220186, 172220194, 172220202, 172220206, 172220210, 172221101, 172223103, 172224128,
    172225105, 172225986, 172226146, 172227107, 172228179, 172228193, 172230150, 172234154,
    172235067, 172235163, 172237117, 172238158, 172239119, 172240080, 172241121, 172241169,
    172242162, 172244175, 172244205, 172244211, 172244223, 172244229, 172244235, 172246166,
    172249129, 172249161, 172250106, 172250170, 172251131, 172252174, 172252178, 172252198,
    172252202, 172252206, 172252210, 172252230, 172252234, 172252250, 173005012, 173013017,
    173013137, 173029035, 173029143, 173053056, 173053058, 173053148, 173054005, 173054037,
    173054053, 173056053, 173058053, 173060053, 173062053, 173064053, 173068053, 173072053,
    173076053, 173077081, 173081077, 173084053, 173088053, 173092053, 173093045, 173093095,
    173096053, 173097077, 173101104, 173101158, 173105077, 173107251, 173108053, 173113077,
    173116236, 173117109, 173118238, 173120053, 173121077, 173125127, 173126053, 173128053,
    173130053, 173131029, 173131061, 173131093, 173131125, 173133134, 173133164, 173134053,
    173134133, 173135215, 173136053, 173136133, 173137077, 173138005, 173138053, 173138117,
    173138133, 173139093, 173139125, 173140212, 173142133, 173144053, 173144133, 173145013,
    173145077, 173145141, 173146053, 173146101, 173146133, 173147093, 173147125, 173149172,
    173150133, 173150149, 173152005, 173152053, 173152101, 173152117, 173152133, 173152149,
    173153013, 173153077, 173153141, 173154021, 173154053, 173154133, 173154149, 173155093,
    173155125, 173158133, 173158149, 173158230, 173159061, 173159093, 173159125, 173159157,
    173160069, 173160133, 173160149, 173161013, 173161077, 173161141, 173162053, 173162085,
    173162133, 173162149, 173163093, 173163125, 173163157, 173164204, 173166005, 173166133,
    173166149, 173166165, 173167029, 173167093, 173167125, 173167157, 173168053, 173168133,
    173168149, 173168165, 173169013, 173169077, 173169141, 173170053, 173170101, 173170133,
    173170149, 173170165, 173171093, 173171125, 173171157, 173172196, 173174054, 173174134,
    173174150, 173174166, 173175095, 173175127, 173175159, 173176056, 173176104, 173176136,
    173176152, 173176168, 173177017, 173177081, 173177145, 173178058, 173178138, 173178154,
    173178170, 173179035, 173179099, 173179131, 173179163, 173180181, 173180197, 173180213,
    173180989, 173181174, 173181176, 173181178, 173182142, 173183135, 173183167, 173184144,
    173184160, 173185153, 173186146, 173186162, 173187075, 173187107, 173187139, 173187171,
    173189175, 173189179, 173189183, 173189187, 173190150, 173191111, 173192152, 173192168,
    173193097, 173193161, 173194074, 173194138, 173194154, 173194170, 173195147, 173197174,
    173197176, 173197178, 173197184, 173197186, 173197190, 173197192, 173197194, 173198078,
    173199151, 173200080, 173200160, 173201041, 173201169, 173202162, 173203059, 173203123,
    173203155, 173205177, 173205185, 173205193, 173205201, 173206166, 173207127, 173208008,
    173208040, 173208168, 173209049, 173210090, 173210170, 173211131, 173211163, 173212245,
    173213174, 173213176, 173213178, 173213186, 173213190, 173213192, 173213194, 173213202,
    173215167, 173217121, 173218002, 173218018, 173219139, 173219171, 173221175, 173221179,
    173221187, 173221195, 173221203, 173221207, 173221211, 173222102, 173224104, 173225129,
    173226106, 173226987, 173227147, 173229194, 173231151, 173235155, 173238118, 173239159,
    173240120, 173241081, 173242170, 173243163, 173245176, 173245206, 173245224, 173245230,
    173247167, 173250130, 173250162, 173251107, 173251171, 173253175, 173253179, 173253199,
    173253203, 173253207, 173253211, 173253231, 173253235, 173253251, 174006013, 174014018,
    174014138, 174030036, 174030144, 174042014, 174054055, 174054057, 174054059, 174054149,
    174063998, 174065054, 174069054, 174073054, 174077054, 174078082, 174083070, 174085054,
    174089054, 174093054, 174094096, 174094156, 174096030, 174096094, 174097054, 174097086,
    174100094, 174102159, 174104094, 174104990, 174105102, 174108094, 174108252, 174109054,
    174109070, 174111102, 174112094, 174116094, 174117102, 174117237, 174119086, 174119239,
    174120094, 174121054, 174122078, 174123102, 174124094, 174125118, 174126164, 174126172,
    174127054, 174128094, 174128126, 174129054, 174129102, 174130014, 174130078, 174131054,
    174134135, 174134165, 174135054, 174135102, 174135134, 174136094, 174136126, 174136216,
    174137054, 174137134, 174138014, 174138078, 174139006, 174139054, 174139118, 174139134,
    174141213, 174143134, 174144094, 174144126, 174145054, 174145134, 174146014, 174146078,
    174146142, 174147054, 174147102, 174147134, 174148196, 174150173, 174151134, 174151150,
    174152094, 174152126, 174153006, 174153054, 174153102, 174153118, 174153134, 174153150,
    174154014, 174154078, 174154142, 174155022, 174155054, 174155134, 174155150, 174156236,
    174159134, 174159150, 174159231, 174160062, 174160094, 174160126, 174160158, 174161070,
    174161134, 174161150, 174162014, 174162078, 174162142, 174163054, 174163086, 174163134,
    174163150, 174164212, 174165205, 174167006, 174167118, 174167134, 174167150, 174167166,
    174168030, 174168094, 174168126, 174168158, 174169054, 174169134, 174169150, 174169166,
    174170014, 174170078, 174170142, 174171054, 174171102, 174171134, 174171150, 174171166,
    174172220, 174173197, 174175055, 174175135, 174175151, 174175167, 174176096, 174176128,
    174176160, 174177057, 174177105, 174177137, 174177153, 174177169, 174178018, 174178082,
    174178146, 174179059, 174179139, 174179155, 174179171, 174180036, 174181182, 174181198,
    174181214, 174181990, 174182175, 174182177, 174182179, 174183143, 174184136, 174184168,
    174185145, 174185161, 174186154, 174187147, 174187163, 174188190, 174188222, 174188254,
    174190176, 174190184, 174191151, 174192112, 174193153, 174193169, 174194098, 174194162,
    174195075, 174195139, 174195155, 174195171, 174198175, 174198177, 174198179, 174198185,
    174198187, 174198191, 174198193, 174198195, 174199079, 174200152, 174201081, 174201161,
    174202042, 174202170, 174203163, 174204060, 174206178, 174206186, 174206194, 174206202,
    174207167, 174208128, 174209009, 174209041, 174209169, 174210050, 174211091, 174211171,
    174213246, 174214175, 174214177, 174214179, 174214187, 174214191, 174214193, 174214195,
    174214203, 174216168, 174219003, 174219019, 174222176, 174222208, 174223103, 174225105,
    174226130, 174227107, 174227988, 174230195, 174232152, 174239119, 174240160, 174241121,
    174243171, 174246177, 174246207, 174246225, 174246231, 174248168, 174251131, 174251163,
    174252108, 174254176, 174254200, 174254208, 174254232, 175007014, 175007140, 175015019,
    175015139, 175031037, 175031145, 175055058, 175055060, 175055148, 175055150, 175056007,
    175056039, 175056055, 175058055, 175060055, 175062055, 175064055, 175064999, 175068055,
    175072055, 175073031, 175076055, 175077063, 175079083, 175080055, 175084007, 175084055,
    175084071, 175085031, 175092055, 175095097, 175095157, 175096055, 175097031, 175097095,
    175100055, 175101095, 175103106, 175103160, 175103172, 175104055, 175105063, 175105095,
    175109095, 175109253, 175112103, 175113095, 175116055, 175116236, 175117095, 175118238,
    175120087, 175120240, 175121095, 175123079, 175124103, 175125095, 175127165, 175127173,
    175128055, 175129095, 175129127, 175130055, 175130103, 175131015, 175131079, 175135136,
    175135164, 175135166, 175135172, 175136055, 175136103, 175136135, 175137095, 175137127,
    175137217, 175138055, 175138135, 175139015, 175139079, 175142214, 175144135, 175145095,
    175145127, 175146055, 175146135, 175147015, 175147079, 175147143, 175149197, 175151156,
    175151174, 175152135, 175152151, 175153095, 175153127, 175154007, 175154055, 175154103,
    175154119, 175154135, 175154151, 175155015, 175155079, 175155143, 175156196, 175157237,
    175160135, 175160151, 175160232, 175161063, 175161095, 175161127, 175161159, 175162071,
    175162135, 175162151, 175163015, 175163079, 175163143, 175164188, 175164204, 175165213,
    175166206, 175167172, 175168007, 175168119, 175168135, 175168151, 175168167, 175169031,
    175169095, 175169127, 175169159, 175170055, 175170135, 175170151, 175170167, 175171015,
    175171079, 175171143, 175172180, 175172212, 175172244, 175173221, 175174198, 175176056,
    175176136, 175176152, 175176168, 175177097, 175177129, 175177161, 175178058, 175178106,
    175178138, 175178154, 175178170, 175179019, 175179083, 175179147, 175180183, 175180199,
    175180215, 175182183, 175182199, 175182215, 175182991, 175183176, 175183178, 175184144,
    175185137, 175185169, 175186146, 175186162, 175187155, 175188199, 175188215, 175189191,
    175189223, 175189255, 175191177, 175191185, 175192152, 175193113, 175194154, 175194170,
    175195099, 175195163, 175196199, 175196215, 175196247, 175199176, 175199178, 175199186,
    175199192, 175199194, 175200080, 175201153, 175202162, 175203171, 175204215, 175207179,
    175207187, 175207195, 175207203, 175208168, 175209129, 175210010, 175210042, 175210170,
    175212215, 175214247, 175215176, 175215178, 175215192, 175215194, 175217169, 175223177,
    175223209, 175224104, 175224985, 175226106, 175227131, 175233153, 175240120, 175241161,
    175247178, 175247208, 175247226, 175247232, 175249169, 175253109, 175255177, 175255201,
    175255209, 175255233, 176008015, 176008141, 176016020, 176016140, 176032038, 176032146,
    176044016, 176056057, 176056059, 176056061, 176056149, 176056151, 176065056, 176069056,
    176073056, 176077056, 176080084, 176080148, 176080156, 176080172, 176081056, 176085008,
    176085056, 176085072, 176093056, 176096098, 176096158, 176097056, 176101056, 176104107,
    176104161, 176104173, 176105056, 176110254, 176113104, 176117056, 176117237, 176119239,
    176121088, 176121241, 176124080, 176125104, 176128166, 176128174, 176129056, 176130096,
    176130128, 176131056, 176131104, 176132228, 176136137, 176136165, 176136167, 176136173,
    176137056, 176137104, 176137136, 176138096, 176138128, 176138218, 176139056, 176139136,
    176143215, 176145136, 176146096, 176146128, 176147056, 176147136, 176148244, 176150198,
    176152157, 176152175, 176153136, 176153152, 176154096, 176154128, 176155008, 176155056,
    176155104, 176155120, 176155136, 176155152, 176156252, 176157197, 176158238, 176161136,
    176161152, 176161233, 176162064, 176162096, 176162128, 176162160, 176163072, 176163136,
    176163152, 176165189, 176165205, 176166214, 176167207, 176168173, 176169008, 176169120,
    176169136, 176169152, 176169168, 176170032, 176170096, 176170128, 176170160, 176171056,
    176171136, 176171152, 176171168, 176173181, 176173213, 176173245, 176174222, 176175199,
    176177057, 176177137, 176177153, 176177169, 176178098, 176178130, 176178162, 176179059,
    176179107, 176179139, 176179155, 176179171, 176180020, 176180208, 176181184, 176181200,
    176181216, 176183184, 176183200, 176183216, 176183992, 176184177, 176184179, 176185145,
    176186138, 176186170, 176187147, 176187163, 176189200, 176189216, 176190192, 176190224,
    176192178, 176192186, 176193153, 176195155, 176195171, 176196208, 176197200, 176197216,
    176197248, 176200177, 176200179, 176200187, 176200193, 176200195, 176201081, 176202154,
    176203163, 176204208, 176205216, 176209169, 176210130, 176211011, 176211043, 176211171,
    176213216, 176215248, 176216177, 176216179, 176216193, 176216195, 176218170, 176224178,
    176224210, 176225105, 176225986, 176227107, 176234154, 176241121, 176242162, 176248179,
    176248209, 176248227, 176248233, 176250170, 176984993, 176985137, 177009016, 177009142,
    177017021, 177017141, 177033039, 177033147, 177057060, 177057062, 177057148, 177057150,
    177057152, 177057172, 177058009, 177058041, 177058057, 177060057, 177062057, 177064057,
    177065049, 177068057, 177072057, 177072985, 177076057, 177080057, 177081085, 177081149,
    177081157, 177081173, 177088057, 177092057, 177096057, 177097049, 177097099, 177097159,
    177099033, 177100057, 177105108, 177105156, 177105162, 177105174, 177111255, 177112057,
    177116236, 177118238, 177120240, 177122242, 177124057, 177125081, 177129167, 177129175,
    177130057, 177131097, 177131129, 177133229, 177137138, 177137164, 177137166, 177137168,
    177137174, 177138057, 177138105, 177138137, 177139097, 177139129, 177139219, 177144216,
    177146137, 177147097, 177147129, 177149245, 177151199, 177153156, 177153158, 177153172,
    177153176, 177154137, 177154153, 177155097, 177155129, 177156180, 177156196, 177156228,
    177157253, 177158198, 177159239, 177162137, 177162153, 177162234, 177163065, 177163097,
    177163129, 177163161, 177164188, 177164204, 177166190, 177166206, 177167215, 177168208,
    177169172, 177169174, 177170009, 177170121, 177170137, 177170153, 177170169, 177171033,
    177171097, 177171129, 177171161, 177172180, 177172196, 177174182, 177174214, 177174246,
    177175223, 177176200, 177178058, 177178138, 177178154, 177178170, 177179099, 177179131,
    177179163, 177180185, 177180201, 177180217, 177181209, 177182185, 177182201, 177182217,
    177184185, 177184201, 177184217, 177184993, 177185178, 177186146, 177187139, 177187171,
    177188201, 177188217, 177190201, 177190217, 177191193, 177191225, 177193179, 177193187,
    177194154, 177196201, 177196217, 177197209, 177198201, 177198217, 177198249, 177201178,
    177201194, 177203155, 177204217, 177205209, 177206217, 177210170, 177211131, 177212217,
    177212233, 177214217, 177216249, 177217178, 177217194, 177219171, 177225179, 177225211,
    177226106, 177226987, 177228249, 177235155, 177243163, 177249210, 177249234, 177251171,
    177985994, 177986138, 178010017, 178010143, 178018022, 178018142, 178034040, 178034148,
    178034172, 178046018, 178058059, 178058061, 178058063, 178058149, 178058151, 178058153,
    178058173, 178065058, 178068002, 178069058, 178073058, 178073986, 178077058, 178080066,
    178081058, 178082086, 178082150, 178082158, 178082174, 178089058, 178093058, 178097058,
    178098100, 178098156, 178098160, 178098172, 178100034, 178100098, 178101058, 178101090,
    178104098, 178106109, 178106157, 178106163, 178106175, 178108098, 178108994, 178109106,
    178112098, 178113058, 178113074, 178115106, 178116098, 178117237, 178119239, 178121106,
    178121241, 178123243, 178124098, 178125058, 178126222, 178129122, 178130132, 178130140,
    178130164, 178130168, 178130176, 178131058, 178132212, 178134230, 178138114, 178138139,
    178138165, 178138167, 178138169, 178138175, 178139058, 178139074, 178139106, 178139138,
    178140220, 178145217, 178147138, 178150246, 178152200, 178154114, 178154157, 178154159,
    178154173, 178154177, 178155138, 178155154, 178156204, 178156236, 178157181, 178157197,
    178157229, 178158254, 178159199, 178160240, 178162164, 178162172, 178163138, 178163154,
    178163235, 178164180, 178164212, 178165189, 178165205, 178167191, 178167207, 178168216,
    178169209, 178170173, 178170175, 178171010, 178171122, 178171138, 178171154, 178171170,
    178172188, 178172252, 178173181, 178173197, 178175183, 178175215, 178175247, 178176224,
    178177201, 178179059, 178179139, 178179155, 178179171, 178180194, 178181186, 178181202,
    178181218, 178182210, 178183186, 178183202, 178183218, 178185186, 178185202, 178185218,
    178185994, 178186179, 178187147, 178188194, 178188226, 178189202, 178189218, 178191202,
    178191218, 178192194, 178192226, 178195155, 178197202, 178197218, 178198210, 178199202,
    178199218, 178199250, 178202179, 178202195, 178204226, 178205218, 178206210, 178207218,
    178211171, 178212226, 178213218, 178213234, 178215218, 178217250, 178218179, 178218195,
    178220226, 178227107, 178227988, 178229250, 178250211, 178250235, 178986995, 178987139,
    179011018, 179011144, 179011172, 179019023, 179019143, 179035041, 179035149, 179035173,
    179059060, 179059062, 179059064, 179059148, 179059150, 179059152, 179059154, 179059174,
    179060011, 179060059, 179062059, 179064059, 179065035, 179068059, 179069003, 179072059,
    179074987, 179077035, 179080059, 179081067, 179083087, 179083151, 179083159, 179083175,
    179084059, 179088011, 179089035, 179099101, 179099157, 179099161, 179099173, 179101035,
    179101099, 179105099, 179107110, 179107158, 179107164, 179107176, 179108059, 179109099,
    179113099, 179116107, 179116236, 179117099, 179118238, 179120240, 179122242, 179124244,
    179125099, 179127223, 179130011, 179130123, 179131051, 179131133, 179131141, 179131165,
    179131169, 179131177, 179133213, 179135231, 179137035, 179139115, 179139140, 179139148,
    179139156, 179139164, 179139166, 179139168, 179139170, 179139172, 179139176, 179140212,
    179141221, 179146218, 179151247, 179153201, 179155115, 179155156, 179155158, 179155160,
    179155164, 179155172, 179155174, 179155178, 179156180, 179156196, 179157205, 179157237,
    179158182, 179158198, 179158230, 179159255, 179160200, 179161241, 179163051, 179163165,
    179163173, 179164188, 179164204, 179164236, 179165181, 179165213, 179166190, 179166206,
    179168192, 179168208, 179169217, 179170210, 179171172, 179171174, 179171176, 179172180,
    179172196, 179172212, 179173189, 179173253, 179174182, 179174198, 179176184, 179176216,
    179176248, 179177225, 179178202, 179180187, 179180203, 179180219, 179181195, 179182187,
    179182203, 179182219, 179183211, 179184187, 179184203, 179184219, 179186187, 179186203,
    179186219, 179186995, 179188203, 179188219, 179188251, 179189195, 179189227, 179190203,
    179190219, 179192203, 179192219, 179193195, 179193227, 179196203, 179196219, 179198203,
    179198219, 179199211, 179200203, 179200219, 179200251, 179204219, 179205227, 179206219,
    179207211, 179208219, 179212219, 179212251, 179213227, 179214219, 179214235, 179216219,
    179218251, 179221227, 179228235, 179230251, 179987996, 179988140, 179988172, 180012019,
    180019012, 180020024, 180020144, 180036042, 180036150, 180036174, 180047012, 180048020,
    180060061, 180060063, 180060065, 180060149, 180060153, 180061012, 180064996, 180065060,
    180069060, 180073060, 180075012, 180075988, 180077060, 180081060, 180084088, 180085028,
    180085060, 180088084, 180089012, 180089060, 180089076, 180093060, 180095044, 180097060,
    180100102, 180101060, 180104084, 180105060, 180108111, 180108165, 180109060, 180110996,
    180112084, 180113060, 180115060, 180117012, 180117060, 180117108, 180120084, 180121060,
    180123028, 180124116, 180125060, 180125092, 180125245, 180128084, 180129044, 180129108,
    180130100, 180131012, 180131060, 180131124, 180134132, 180138036, 180138068, 180138100,
    180138132, 180139060, 180140141, 180141140, 180142132, 180142222, 180143140, 180144084,
    180145012, 180145060, 180145124, 180145140, 180146100, 180146132, 180147060, 180147092,
    180147108, 180147140, 180149140, 180150132, 180151140, 180152020, 180152084, 180152148,
    180153060, 180153108, 180153140, 180154100, 180154132, 180155060, 180155140, 180156996,
    180157140, 180157156, 180158132, 180159012, 180159060, 180159108, 180159124, 180159140,
    180159156, 180160084, 180160148, 180161028, 180161060, 180161140, 180161156, 180162100,
    180162132, 180163044, 180163060, 180163140, 180163156, 180165140, 180165156, 180165237,
    180166100, 180166132, 180166164, 180167076, 180167140, 180167156, 180168020, 180168084,
    180168148, 180169060, 180169092, 180169140, 180169156, 180170100, 180170132, 180170164,
    180171060, 180171108, 180171140, 180171156, 180173012, 180173140, 180173156, 180173172,
    180174100, 180174132, 180174164, 180175060, 180175140, 180175156, 180175172, 180176084,
    180176148, 180177060, 180177108, 180177140, 180177156, 180177172, 180178100, 180178132,
    180178164, 180179060, 180179140, 180179156, 180179172, 180181061, 180181141, 180181157,
    180181173, 180182102, 180182134, 180182166, 180183063, 180183111, 180183143, 180183159,
    180183175, 180184024, 180184088, 180184152, 180184985, 180185065, 180185145, 180185161,
    180185177, 180186042, 180186106, 180186138, 180186170, 180187019, 180187067, 180187131,
    180187147, 180187163, 180187179, 180187996, 180188181, 180188183, 180188185, 180188187,
    180189149, 180190142, 180190174, 180191151, 180191167, 180192160, 180193089, 180193153,
    180193169, 180194082, 180194114, 180194146, 180194178, 180194995, 180195075, 180195123,
    180195155, 180195171, 180196182, 180196186, 180196190, 180196194, 180197157, 180198118,
    180199159, 180199175, 180200104, 180200168, 180201081, 180201145, 180201161, 180201177,
    180202154, 180203083, 180203163, 180203179, 180204181, 180204183, 180204185, 180204187,
    180204191, 180204193, 180204195, 180204197, 180204199, 180204201, 180204203, 180205085,
    180206158, 180207087, 180207167, 180208048, 180208176, 180209089, 180209169, 180210066,
    180210130, 180210162, 180211171, 180212184, 180212192, 180212200, 180212208, 180213173,
    180214134, 180215015, 180215047, 180215175, 180216056, 180217097, 180217177, 180218138,
    180218170, 180219099, 180219115, 180219147, 180219179, 180220028, 180220181, 180220183,
    180220185, 180220187, 180220193, 180220195, 180220197, 180220199, 180220201, 180220203,
    180220209, 180220211, 180220219, 180222174, 180224128, 180225009, 180225025, 180225986,
    180226146, 180226178, 180228182, 180228186, 180228194, 180228202, 180228210, 180228214,
    180228218, 180229109, 180229990, 180231111, 180232136, 180233113, 180233994, 180234154,
    180235115, 180236187, 180236201, 180238158, 180242162, 180243075, 180243171, 180245125,
    180246166, 180247127, 180248088, 180249129, 180249177, 180250170, 180251131, 180252183,
    180252213, 180252219, 180252231, 180252237, 180252243, 180254174, 180988997, 180989141,
    181013020, 181013132, 181021025, 181021145, 181037043, 181037151, 181061064, 181061066,
    181061156, 181062013, 181062045, 181062061, 181064061, 181068061, 181069053, 181072061,
    181076061, 181076989, 181080061, 181084061, 181085089, 181089085, 181092061, 181096061,
    181100061, 181101053, 181101103, 181103037, 181104061, 181105085, 181109112, 181109166,
    181113085, 181116061, 181121085, 181124244, 181125117, 181126246, 181128061, 181129085,
    181130045, 181130061, 181130109, 181131101, 181134061, 181135133, 181136061, 181138061,
    181139037, 181139069, 181139101, 181139133, 181141142, 181141172, 181142061, 181142141,
    181143133, 181143223, 181144061, 181144141, 181145085, 181146013, 181146061, 181146125,
    181146141, 181147101, 181147133, 181148220, 181150141, 181151133, 181152061, 181152141,
    181153021, 181153085, 181153149, 181154061, 181154109, 181154141, 181155101, 181155133,
    181157180, 181158141, 181158157, 181159133, 181160013, 181160061, 181160109, 181160125,
    181160141, 181160157, 181161021, 181161085, 181161149, 181162029, 181162061, 181162141,
    181162157, 181163037, 181163101, 181163133, 181166141, 181166157, 181166238, 181167101,
    181167133, 181167165, 181168077, 181168141, 181168157, 181169021, 181169085, 181169149,
    181170061, 181170093, 181170141, 181170157, 181171101, 181171133, 181171165, 181172212,
    181174013, 181174141, 181174157, 181174173, 181175037, 181175101, 181175133, 181175165,
    181176061, 181176141, 181176157, 181176173, 181177021, 181177085, 181177149, 181178061,
    181178109, 181178141, 181178157, 181178173, 181179101, 181179133, 181179165, 181180204,
    181182062, 181182142, 181182158, 181182174, 181183103, 181183135, 181183167, 181184064,
    181184112, 181184144, 181184160, 181184176, 181185025, 181185089, 181185153, 181185986,
    181186066, 181186146, 181186162, 181186178, 181187043, 181187107, 181187139, 181187171,
    181188189, 181188205, 181188221, 181188997, 181189182, 181189184, 181189186, 181190150,
    181191143, 181191175, 181192152, 181192168, 181193161, 181194154, 181194170, 181195083,
    181195115, 181195147, 181195179, 181197183, 181197187, 181197191, 181197195, 181198158,
    181199119, 181200160, 181200176, 181201105, 181201169, 181202082, 181202146, 181202162,
    181202178, 181203155, 181205182, 181205184, 181205186, 181205192, 181205194, 181205198,
    181205200, 181205202, 181206086, 181207159, 181208088, 181208168, 181209049, 181209177,
    181210170, 181211067, 181211131, 181211163, 181213185, 181213193, 181213201, 181213209,
    181214174, 181215135, 181216016, 181216048, 181216176, 181217057, 181218098, 181218178,
    181219139, 181219171, 181220253, 181221182, 181221184, 181221186, 181221194, 181221198,
    181221200, 181221202, 181221210, 181223175, 181225129, 181226010, 181226026, 181226987,
    181227147, 181227179, 181229183, 181229187, 181229195, 181229203, 181229211, 181229215,
    181229219, 181230110, 181230991, 181232112, 181233137, 181234114, 181234995, 181235155,
    181237202, 181239159, 181243163, 181246126, 181247167, 181248128, 181249089, 181250130,
    181250178, 181251171, 181253184, 181253214, 181253232, 181253238, 181255175, 181989998,
    181990142, 182014021, 182022026, 182022146, 182038044, 182038152, 182050022, 182062063,
    182062065, 182062067, 182062157, 182065062, 182069062, 182072006, 182073062, 182077062,
    182077990, 182081062, 182084070, 182085062, 182086090, 182091078, 182093062, 182097062,
    182101062, 182102104, 182102164, 182104038, 182104102, 182105062, 182105094, 182108102,
    182110167, 182112070, 182112102, 182112998, 182113110, 182116102, 182117062, 182117078,
    182119110, 182120102, 182124102, 182125110, 182125245, 182127094, 182127247, 182128102,
    182129062, 182130022, 182130086, 182131046, 182131062, 182131110, 182134172, 182134180,
    182135062, 182136102, 182136134, 182137062, 182137110, 182138022, 182138086, 182139062,
    182142143, 182142173, 182143062, 182143110, 182143142, 182144102, 182144134, 182144224,
    182145062, 182145142, 182146022, 182146086, 182147014, 182147062, 182147126, 182147142,
    182149221, 182151142, 182152102, 182152134, 182153062, 182153142, 182154022, 182154086,
    182154150, 182155062, 182155110, 182155142, 182156204, 182158181, 182159142, 182159158,
    182160102, 182160134, 182161014, 182161062, 182161110, 182161126, 182161142, 182161158,
    182162022, 182162086, 182162150, 182163030, 182163062, 182163142, 182163158, 182164244,
    182167142, 182167158, 182167239, 182168070, 182168102, 182168134, 182168166, 182169078,
    182169142, 182169158, 182170022, 182170086, 182170150, 182171062, 182171094, 182171142,
    182171158, 182172220, 182173213, 182175014, 182175126, 182175142, 182175158, 182175174,
    182176038, 182176102, 182176134, 182176166, 182177062, 182177142, 182177158, 182177174,
    182178022, 182178086, 182178150, 182179062, 182179110, 182179142, 182179158, 182179174,
    182180228, 182181205, 182183063, 182183143, 182183159, 182183175, 182184104, 182184136,
    182184168, 182185065, 182185113, 182185145, 182185161, 182185177, 182186026, 182186090,
    182186154, 182186987, 182187067, 182187147, 182187163, 182187179, 182188044, 182189190,
    182189206, 182189222, 182189998, 182190183, 182190185, 182190187, 182191151, 182192144,
    182192176, 182193153, 182193169, 182194162, 182195155, 182195171, 182196198, 182196230,
    182198184, 182198192, 182199159, 182200120, 182201161, 182201177, 182202106, 182202170,
    182203083, 182203147, 182203163, 182203179, 182206183, 182206185, 182206187, 182206193,
    182206195, 182206199, 182206201, 182206203, 182207087, 182208160, 182209089, 182209169,
    182210050, 182210178, 182211171, 182212068, 182214186, 182214194, 182214202, 182214210,
    182215175, 182216136, 182217017, 182217049, 182217177, 182218058, 182219099, 182219179,
    182221254, 182222183, 182222185, 182222187, 182222195, 182222199, 182222201, 182222203,
    182222211, 182224176, 182226130, 182227011, 182227027, 182230184, 182230216, 182231111,
    182231992, 182233113, 182234138, 182235115, 182235996, 182238203, 182240160, 182247127,
    182248168, 182249129, 182251131, 182251179, 182254185, 182254215, 182254233, 182254239,
    182990999, 182991143, 183015022, 183015148, 183023027, 183023147, 183039045, 183039153,
    183063066, 183063068, 183063156, 183063158, 183064015, 183064047, 183064063, 183068063,
    183069039, 183072063, 183073007, 183076063, 183078991, 183080063, 183081039, 183084063,
    183085071, 183087091, 183088063, 183092015, 183092063, 183092079, 183093039, 183100063,
    183103105, 183103165, 183104063, 183105039, 183105103, 183108063, 183109103, 183111114,
    183111168, 183111180, 183112063, 183113071, 183113103, 183117103, 183120111, 183121103,
    183124063, 183124244, 183125103, 183126246, 183128095, 183128248, 183129103, 183130063,
    183131023, 183131087, 183135173, 183135181, 183136063, 183137103, 183137135, 183138063,
    183138111, 183139023, 183139087, 183143144, 183143172, 183143174, 183143180, 183144063,
    183144111, 183144143, 183145103, 183145135, 183145225, 183146063, 183146143, 183147023,
    183147087, 183150222, 183152143, 183153103, 183153135, 183154063, 183154143, 183155023,
    183155087, 183155151, 183157205, 183159164, 183159182, 183160143, 183160159, 183161103,
    183161135, 183162015, 183162063, 183162111, 183162127, 183162143, 183162159, 183163023,
    183163087, 183163151, 183164204, 183165245, 183168143, 183168159, 183168240, 183169071,
    183169103, 183169135, 183169167, 183170079, 183170143, 183170159, 183171023, 183171087,
    183171151, 183172196, 183172212, 183173221, 183174214, 183175180, 183176015, 183176127,
    183176143, 183176159, 183176175, 183177039, 183177103, 183177135, 183177167, 183178063,
    183178143, 183178159, 183178175, 183179023, 183179087, 183179151, 183180188, 183180220,
    183180252, 183181229, 183182206, 183184064, 183184144, 183184160, 183184176, 183185105,
    183185137, 183185169, 183186066, 183186114, 183186146, 183186162, 183186178, 183187027,
    183187091, 183187155, 183188191, 183188207, 183188223, 183190191, 183190207, 183190223,
    183190999, 183191184, 183191186, 183192152, 183193145, 183193177, 183194154, 183194170,
    183195163, 183196207, 183196223, 183197199, 183197231, 183199185, 183199193, 183200160,
    183201121, 183202162, 183202178, 183203107, 183203171, 183204207, 183204223, 183204255,
    183207184, 183207186, 183207194, 183207200, 183207202, 183208088, 183209161, 183210170,
    183211179, 183212223, 183213069, 183215187, 183215195, 183215203, 183215211, 183216176,
    183217137, 183218018, 183218050, 183218178, 183220223, 183222255, 183223184, 183223186,
    183223200, 183223202, 183224985, 183225177, 183227131, 183231185, 183231217, 183232112,
    183232993, 183234114, 183235139, 183241161, 183248128, 183249169, 183250130, 183255186,
    183255216, 183255234, 183255240, 183992000, 183992144, 184016023, 184016149, 184024028,
    184024148, 184040046, 184040154, 184052024, 184064067, 184064069, 184064157, 184064159,
    184065016, 184065048, 184065064, 184069064, 184073064, 184077064, 184079992, 184081064,
    184085064, 184088092, 184088156, 184088164, 184088180, 184089064, 184093016, 184093064,
    184093080, 184101064, 184104106, 184104166, 184105064, 184109064, 184112115, 184112169,
    184112181, 184113064, 184121112, 184125064, 184125245, 184127247, 184129096, 184129249,
    184130104, 184131064, 184132228, 184136174, 184136182, 184137064, 184138104, 184138136,
    184139064, 184139112, 184140236, 184144145, 184144173, 184144175, 184144181, 184145064,
    184145112, 184145144, 184146104, 184146136, 184146226, 184147064, 184147144, 184151223,
    184153144, 184154104, 184154136, 184155064, 184155144, 184156252, 184158206, 184160165,
    184160183, 184161144, 184161160, 184162104, 184162136, 184163016, 184163064, 184163112,
    184163128, 184163144, 184163160, 184165205, 184166246, 184169144, 184169160, 184169241,
    184170072, 184170104, 184170136, 184170168, 184171080, 184171144, 184171160, 184173197,
    184173213, 184174222, 184175215, 184176181, 184177016, 184177128, 184177144, 184177160,
    184177176, 184178040, 184178104, 184178136, 184178168, 184179064, 184179144, 184179160,
    184179176, 184181189, 184181221, 184181253, 184182230, 184183207, 184185065, 184185145,
    184185161, 184185177, 184186106, 184186138, 184186170, 184187067, 184187115, 184187147,
    184187163, 184187179, 184188028, 184188216, 184188989, 184189192, 184189208, 184189224,
    184191192, 184191208, 184191224, 184192000, 184192185, 184192187, 184193153, 184194146,
    184194178, 184195155, 184195171, 184197208, 184197224, 184198200, 184198232, 184200186,
    184200194, 184201161, 184203163, 184203179, 184204216, 184205208, 184205224, 184208185,
    184208187, 184208195, 184208201, 184208203, 184209089, 184210162, 184211171, 184212216,
    184213224, 184217177, 184218138, 184219019, 184219051, 184219179, 184221224, 184224185,
    184224187, 184224201, 184224203, 184225986, 184226178, 184232186, 184232218, 184233113,
    184233994, 184235115, 184242162, 184249129, 184250170, 184251131, 184984990, 184985140,
    184993001, 184993145, 185017024, 185017150, 185025029, 185025149, 185041047, 185041155,
    185049985, 185052033, 185065066, 185065068, 185065070, 185065156, 185065158, 185065160,
    185065180, 185073057, 185080993, 185089093, 185089157, 185089165, 185089181, 185105057,
    185105107, 185105167, 185107041, 185113116, 185113164, 185113170, 185113182, 185124244,
    185126246, 185128248, 185130097, 185130250, 185131105, 185133229, 185137175, 185137183,
    185138065, 185139105, 185139137, 185141237, 185145146, 185145172, 185145174, 185145176,
    185145182, 185146065, 185146113, 185146145, 185147105, 185147137, 185147227, 185152224,
    185154145, 185155105, 185155137, 185157253, 185159207, 185161164, 185161166, 185161180,
    185161184, 185162145, 185162161, 185163105, 185163137, 185164188, 185164204, 185164236,
    185166206, 185167247, 185169985, 185170145, 185170161, 185170242, 185171073, 185171105,
    185171137, 185171169, 185172196, 185172212, 185174198, 185174214, 185175223, 185176216,
    185177180, 185177182, 185178017, 185178129, 185178145, 185178161, 185178177, 185179041,
    185179105, 185179137, 185179169, 185180188, 185180204, 185182190, 185182222, 185182254,
    185183231, 185184208, 185186066, 185186146, 185186162, 185186178, 185187107, 185187139,
    185187171, 185188193, 185188209, 185188225, 185189217, 185189990, 185190193, 185190209,
    185190225, 185192193, 185192209, 185192225, 185193001, 185193186, 185194154, 185195147,
    185195179, 185196209, 185196225, 185198209, 185198225, 185199201, 185199233, 185201187,
    185201195, 185202162, 185204209, 185204225, 185205217, 185206209, 185206225, 185209186,
    185209202, 185211163, 185212225, 185213217, 185214225, 185218178, 185219139, 185220225,
    185220241, 185222225, 185225186, 185225202, 185226987, 185227179, 185233187, 185233219,
    185234114, 185234995, 185243163, 185250130, 185251171, 185985991, 185986141, 185994002,
    185994146, 186018025, 186018151, 186026030, 186026150, 186042048, 186042156, 186042180,
    186050986, 186054026, 186066067, 186066069, 186066071, 186066157, 186066159, 186066161,
    186066181, 186067066, 186069066, 186071066, 186073066, 186075066, 186076010, 186077066,
    186079066, 186081066, 186081994, 186085066, 186087066, 186088074, 186089066, 186090094,
    186090158, 186090166, 186090182, 186091066, 186093066, 186097066, 186101066, 186105066,
    186106108, 186106164, 186106168, 186106180, 186108042, 186108106, 186109066, 186109098,
    186112106, 186113066, 186114117, 186114165, 186114171, 186114183, 186115066, 186116106,
    186117002, 186117114, 186120106, 186121066, 186121082, 186123114, 186124106, 186125245,
    186127247, 186129114, 186129249, 186130122, 186131098, 186131251, 186134230, 186138140,
    186138148, 186138172, 186138176, 186138184, 186139066, 186140220, 186142238, 186146122,
    186146147, 186146173, 186146175, 186146177, 186146183, 186147066, 186147082, 186147114,
    186147146, 186148228, 186153225, 186155146, 186158254, 186160208, 186162122, 186162165,
    186162167, 186162181, 186162185, 186163146, 186163162, 186164212, 186164244, 186165189,
    186165205, 186165237, 186167207, 186168248, 186170172, 186170180, 186170986, 186171146,
    186171162, 186171243, 186172188, 186172220, 186173197, 186173213, 186175199, 186175215,
    186176224, 186177217, 186178181, 186178183, 186179018, 186179130, 186179146, 186179162,
    186179178, 186180196, 186181189, 186181205, 186183191, 186183223, 186183255, 186184232,
    186185209, 186187067, 186187147, 186187163, 186187179, 186188202, 186189194, 186189210,
    186189226, 186190218, 186190991, 186191194, 186191210, 186191226, 186193194, 186193210,
    186193226, 186194002, 186194187, 186195155, 186196202, 186196234, 186197210, 186197226,
    186199210, 186199226, 186200202, 186200234, 186203163, 186205210, 186205226, 186206218,
    186207210, 186207226, 186210187, 186210203, 186212234, 186213226, 186214218, 186215226,
    186219179, 186220234, 186221226, 186221242, 186223226, 186226187, 186226203, 186228234,
    186235115, 186235996, 186251131, 186986992, 186987142, 186995003, 186995147, 187019026,
    187019152, 187019180, 187027031, 187027151, 187043049, 187043157, 187043181, 187051987,
    187067068, 187067070, 187067072, 187067156, 187067158, 187067160, 187067162, 187067182,
    187068019, 187068067, 187072067, 187073043, 187076067, 187077011, 187080067, 187082995,
    187085043, 187088067, 187089075, 187091095, 187091159, 187091167, 187091183, 187092067,
    187096019, 187097043, 187107109, 187107165, 187107169, 187107181, 187109043, 187109107,
    187113107, 187115118, 187115166, 187115172, 187115184, 187116067, 187117107, 187121107,
    187124115, 187124244, 187125107, 187126246, 187128248, 187130115, 187130250, 187131123,
    187132252, 187135231, 187138019, 187139059, 187139141, 187139149, 187139173, 187139177,
    187139185, 187141221, 187143239, 187145043, 187147123, 187147148, 187147156, 187147164,
    187147172, 187147174, 187147176, 187147178, 187147180, 187147184, 187148220, 187149229,
    187154226, 187159255, 187161209, 187163123, 187163164, 187163166, 187163168, 187163172,
    187163180, 187163182, 187163186, 187164188, 187164204, 187165213, 187165245, 187166190,
    187166206, 187166238, 187168208, 187169249, 187171059, 187171173, 187171181, 187172196,
    187172212, 187172244, 187173189, 187173221, 187174198, 187174214, 187176200, 187176216,
    187177225, 187178218, 187179180, 187179182, 187179184, 187180188, 187180204, 187180220,
    187181197, 187182190, 187182206, 187184192, 187184224, 187185233, 187186210, 187188195,
    187188211, 187188227, 187189203, 187190195, 187190211, 187190227, 187191219, 187191992,
    187192195, 187192211, 187192227, 187194195, 187194211, 187194227, 187195003, 187196211,
    187196227, 187197203, 187197235, 187198211, 187198227, 187200211, 187200227, 187201203,
    187201235, 187204211, 187204227, 187206211, 187206227, 187207219, 187208211, 187208227,
    187212227, 187213235, 187214227, 187215219, 187216227, 187220227, 187221235, 187222227,
    187222243, 187224227, 187229235, 187236243, 187987993, 187988143, 187996004, 187996132,
    187996148, 187996180, 188002988, 188020027, 188022988, 188027020, 188028032, 188028152,
    188044050, 188044158, 188044182, 188052988, 188055020, 188056028, 188062988, 188068071,
    188068073, 188068157, 188068161, 188069020, 188069052, 188069068, 188072988, 188073004,
    188073068, 188077068, 188081068, 188083020, 188083996, 188085068, 188089068, 188092096,
    188092988, 188093036, 188093068, 188096092, 188097020, 188097068, 188097084, 188101068,
    188103052, 188105068, 188108110, 188109068, 188112092, 188112988, 188113068, 188116119,
    188116173, 188117068, 188119004, 188120092, 188121068, 188122988, 188123068, 188125020,
    188125068, 188125116, 188128092, 188129068, 188130108, 188131036, 188131068, 188131116,
    188132988, 188133253, 188136092, 188137052, 188137116, 188138108, 188139020, 188139068,
    188139132, 188142140, 188146044, 188146076, 188146108, 188146140, 188147068, 188148149,
    188149148, 188150140, 188150230, 188151148, 188152092, 188152988, 188153020, 188153068,
    188153132, 188153148, 188154108, 188154140, 188155068, 188155100, 188155116, 188155148,
    188157148, 188158140, 188159148, 188160028, 188160092, 188160156, 188161068, 188161116,
    188161148, 188162108, 188162140, 188162988, 188163068, 188163148, 188165004, 188165148,
    188165164, 188166140, 188167020, 188167068, 188167116, 188167132, 188167148, 188167164,
    188168092, 188168156, 188169036, 188169068, 188169148, 188169164, 188170108, 188170140,
    188171052, 188171068, 188171148, 188171164, 188173148, 188173164, 188173245, 188174108,
    188174140, 188174172, 188175084, 188175148, 188175164, 188176028, 188176092, 188176156,
    188177068, 188177100, 188177148, 188177164, 188178108, 188178140, 188178172, 188179068,
    188179116, 188179148, 188179164, 188181020, 188181132, 188181148, 188181164, 188181180,
    188182108, 188182140, 188182172, 188182988, 188183068, 188183148, 188183164, 188183180,
    188184092, 188184156, 188185068, 188185116, 188185148, 188185164, 188185180, 188186108,
    188186140, 188186172, 188187068, 188187148, 188187164, 188187180, 188189069, 188189149,
    188189165, 188189181, 188190110, 188190142, 188190174, 188191071, 188191119, 188191151,
    188191167, 188191183, 188192032, 188192096, 188192160, 188192993, 188193073, 188193153,
    188193169, 188193185, 188194050, 188194114, 188194146, 188194178, 188195027, 188195075,
    188195139, 188195155, 188195171, 188195187, 188196004, 188196189, 188196191, 188196193,
    188196195, 188197157, 188198150, 188198182, 188199159, 188199175, 188200168, 188201097,
    188201161, 188201177, 188202090, 188202122, 188202154, 188202186, 188203003, 188203083,
    188203131, 188203163, 188203179, 188204190, 188204194, 188204198, 188204202, 188205165,
    188206126, 188207167, 188207183, 188208112, 188208176, 188209089, 188209153, 188209169,
    188209185, 188210130, 188210162, 188211091, 188211171, 188211187, 188212189, 188212191,
    188212193, 188212195, 188212199, 188212201, 188212203, 188212205, 188212207, 188212209,
    188212211, 188213093, 188214166, 188215095, 188215175, 188216056, 188216184, 188217097,
    188217177, 188218074, 188218138, 188218170, 188219179, 188220192, 188220200, 188220208,
    188220216, 188221181, 188222142, 188223023, 188223055, 188223183, 188224064, 188225105,
    188225185, 188226146, 188226178, 188227107, 188227123, 188227155, 188227187, 188228036,
    188228189, 188228191, 188228193, 188228195, 188228201, 188228203, 188228205, 188228207,
    188228209, 188228211, 188228217, 188228219, 188228227, 188229990, 188230182, 188232136,
    188233017, 188233033, 188233994, 188234154, 188234186, 188236190, 188236194, 188236202,
    188236210, 188236218, 188236222, 188236226, 188237117, 188237998, 188239119, 188240144,
    188241121, 188242002, 188242162, 188243123, 188244195, 188244209, 188246166, 188250170,
    188251083, 188251179, 188253133, 188254174, 188255135, 188988994, 188989144, 188997005,
    188997149, 189021028, 189021140, 189029033, 189029153, 189045051, 189045159, 189053989,
    189056037, 189069070, 189069072, 189069074, 189069158, 189069162, 189069164, 189077061,
    189084997, 189093097, 189097093, 189109061, 189109111, 189111045, 189113093, 189117120,
    189117132, 189117174, 189121093, 189124069, 189129093, 189130069, 189131109, 189132252,
    189134254, 189137093, 189138053, 189138117, 189139109, 189143141, 189143989, 189147045,
    189147077, 189147109, 189147141, 189149150, 189149180, 189150149, 189151141, 189151231,
    189152149, 189153093, 189153989, 189154021, 189154069, 189154133, 189154149, 189155109,
    189155141, 189156228, 189158149, 189159141, 189160149, 189161029, 189161093, 189161157,
    189162069, 189162117, 189162149, 189163109, 189163141, 189165188, 189166149, 189166165,
    189167141, 189168021, 189168069, 189168117, 189168133, 189168149, 189168165, 189169029,
    189169093, 189169157, 189170037, 189170069, 189170149, 189170165, 189171045, 189171109,
    189171141, 189173989, 189174149, 189174165, 189174246, 189175109, 189175141, 189175173,
    189176085, 189176149, 189176165, 189177029, 189177093, 189177157, 189178069, 189178101,
    189178149, 189178165, 189179109, 189179141, 189179173, 189180220, 189182021, 189182133,
    189182149, 189182165, 189182181, 189183045, 189183109, 189183141, 189183173, 189184069,
    189184149, 189184165, 189184181, 189185029, 189185093, 189185157, 189186069, 189186117,
    189186149, 189186165, 189186181, 189187109, 189187141, 189187173, 189188212, 189190070,
    189190150, 189190166, 189190182, 189191111, 189191143, 189191175, 189192072, 189192120,
    189192152, 189192168, 189192184, 189193033, 189193097, 189193161, 189193994, 189194074,
    189194154, 189194170, 189194186, 189195051, 189195115, 189195147, 189195179, 189196197,
    189196213, 189196229, 189197005, 189197190, 189197192, 189197194, 189198158, 189199151,
    189199183, 189200160, 189200176, 189201169, 189202162, 189202178, 189203091, 189203123,
    189203155, 189203187, 189205191, 189205195, 189205199, 189205203, 189206166, 189207127,
    189208168, 189208184, 189209113, 189209177, 189210090, 189210154, 189210170, 189210186,
    189211131, 189211163, 189213190, 189213192, 189213194, 189213200, 189213202, 189213206,
    189213208, 189213210, 189214094, 189215167, 189216096, 189216176, 189217057, 189217185,
    189218178, 189219075, 189219139, 189219171, 189221193, 189221201, 189221209, 189221217,
    189222182, 189223143, 189224024, 189224056, 189224184, 189225065, 189226106, 189226186,
    189227147, 189227179, 189229190, 189229192, 189229194, 189229202, 189229206, 189229208,
    189229210, 189229218, 189230991, 189231183, 189233137, 189234018, 189234034, 189234995,
    189235155, 189235187, 189237191, 189237195, 189237203, 189237211, 189237219, 189237223,
    189237227, 189238118, 189238999, 189240120, 189241145, 189242122, 189243003, 189243163,
    189245210, 189247167, 189251171, 189254134, 189255175, 189989995, 189990145, 189998006,
    189998150, 190022029, 190030034, 190030154, 190046052, 190046160, 190054990, 190058030,
    190064990, 190070073, 190070075, 190070165, 190071070, 190073070, 190075070, 190077070,
    190079070, 190080014, 190081070, 190083070, 190085070, 190085998, 190087070, 190089070,
    190091070, 190092078, 190093070, 190094098, 190095070, 190097070, 190099070, 190099086,
    190101070, 190105070, 190107070, 190109070, 190110112, 190110172, 190111070, 190112046,
    190112110, 190113070, 190113102, 190115070, 190116110, 190117070, 190118175, 190119070,
    190120078, 190120110, 190121006, 190121070, 190121118, 190124110, 190125070, 190125086,
    190127118, 190128110, 190129070, 190130030, 190130094, 190131070, 190133253, 190135102,
    190135255, 190136110, 190137070, 190138030, 190138094, 190139054, 190139070, 190139118,
    190142180, 190142188, 190143070, 190144110, 190144142, 190144990, 190145070, 190145118,
    190146030, 190146094, 190147070, 190150151, 190150181, 190151070, 190151118, 190151150,
    190152110, 190152142, 190152232, 190153070, 190153150, 190154030, 190154094, 190154990,
    190155022, 190155070, 190155134, 190155150, 190157229, 190159150, 190160110, 190160142,
    190161070, 190161150, 190162030, 190162094, 190162158, 190163070, 190163118, 190163150,
    190164212, 190166189, 190167150, 190167166, 190168110, 190168142, 190169022, 190169070,
    190169118, 190169134, 190169150, 190169166, 190170030, 190170094, 190170158, 190171038,
    190171070, 190171150, 190171166, 190172252, 190174990, 190175150, 190175166, 190175247,
    190176078, 190176110, 190176142, 190176174, 190177086, 190177150, 190177166, 190178030,
    190178094, 190178158, 190179070, 190179102, 190179150, 190179166, 190180228, 190181221,
    190183022, 190183134, 190183150, 190183166, 190183182, 190184046, 190184110, 190184142,
    190184174, 190185070, 190185150, 190185166, 190185182, 190186030, 190186094, 190186158,
    190187070, 190187118, 190187150, 190187166, 190187182, 190188236, 190189213, 190191071,
    190191151, 190191167, 190191183, 190192112, 190192144, 190192176, 190193073, 190193121,
    190193153, 190193169, 190193185, 190194034, 190194098, 190194162, 190194995, 190195075,
    190195155, 190195171, 190195187, 190196052, 190197198, 190197214, 190197230, 190198006,
    190198191, 190198193, 190198195, 190199159, 190200152, 190200184, 190201161, 190201177,
    190202170, 190203163, 190203179, 190204206, 190204238, 190206192, 190206200, 190207167,
    190208128, 190209169, 190209185, 190210114, 190210178, 190211091, 190211155, 190211171,
    190211187, 190214191, 190214193, 190214195, 190214201, 190214203, 190214207, 190214209,
    190214211, 190215095, 190216168, 190217097, 190217177, 190218058, 190218186, 190219179,
    190220076, 190222194, 190222202, 190222210, 190222218, 190223183, 190224144, 190225025,
    190225057, 190225185, 190227107, 190227187, 190230191, 190230193, 190230195, 190230203,
    190230207, 190230209, 190230211, 190230219, 190231992, 190232184, 190234138, 190235019,
    190235035, 190238192, 190238224, 190239119, 190240000, 190241121, 190242146, 190243123,
    190244004, 190246211, 190248168, 190255135, 190990996, 190991146, 190999007, 190999151,
    191023030, 191023156, 191031035, 191031155, 191047053, 191047161, 191055991, 191058039,
    191065047, 191071074, 191071076, 191071164, 191071166, 191072023, 191072055, 191072071,
    191076071, 191077047, 191080071, 191081015, 191084071, 191086999, 191088071, 191089047,
    191092071, 191093079, 191095099, 191096071, 191100023, 191100071, 191100087, 191101047,
    191108071, 191111113, 191111173, 191112071, 191113047, 191113111, 191116071, 191117111,
    191119122, 191119176, 191119188, 191120071, 191121079, 191121111, 191125111, 191128119,
    191129111, 191130071, 191131031, 191131095, 191132252, 191134254, 191136103, 191137111,
    191138071, 191139031, 191139095, 191143181, 191143189, 191144071, 191145111, 191145143,
    191145991, 191146071, 191146119, 191147031, 191147095, 191151152, 191151180, 191151182,
    191151188, 191152071, 191152119, 191152151, 191153111, 191153143, 191153233, 191154071,
    191154151, 191155031, 191155095, 191158230, 191160151, 191161111, 191161143, 191162071,
    191162151, 191163031, 191163095, 191163159, 191165213, 191167172, 191167190, 191168151,
    191168167, 191169111, 191169143, 191170023, 191170071, 191170119, 191170135, 191170151,
    191170167, 191171031, 191171095, 191171159, 191172212, 191173253, 191175991, 191176151,
    191176167, 191176248, 191177079, 191177111, 191177143, 191177175, 191178087, 191178151,
    191178167, 191179031, 191179095, 191179159, 191180204, 191180220, 191181229, 191182222,
    191183188, 191184023, 191184135, 191184151, 191184167, 191184183, 191185047, 191185111,
    191185143, 191185175, 191186071, 191186151, 191186167, 191186183, 191187031, 191187095,
    191187159, 191188196, 191188228, 191189237, 191190214, 191192072, 191192152, 191192168,
    191192184, 191193113, 191193145, 191193177, 191194074, 191194122, 191194154, 191194170,
    191194186, 191195035, 191195099, 191195163, 191196199, 191196215, 191196231, 191198199,
    191198215, 191198231, 191199007, 191199192, 191199194, 191200160, 191201153, 191201185,
    191202162, 191202178, 191203171, 191204215, 191204231, 191205207, 191205239, 191207193,
    191207201, 191208168, 191209129, 191210170, 191210186, 191211115, 191211179, 191212215,
    191212231, 191215192, 191215194, 191215202, 191215208, 191215210, 191216096, 191217169,
    191218178, 191219187, 191220231, 191221077, 191223195, 191223203, 191223211, 191223219,
    191224184, 191225145, 191226026, 191226058, 191226186, 191228231, 191231192, 191231194,
    191231208, 191231210, 191232993, 191233185, 191235139, 191239193, 191239225, 191240120,
    191241001, 191242122, 191243147, 191249169, 191991997, 191992147, 192000008, 192000152,
    192024031, 192024157, 192032036, 192032156, 192048054, 192048162, 192056992, 192060032,
    192072075, 192072077, 192072165, 192072167, 192073024, 192073056, 192073072, 192077072,
    192081072, 192085072, 192088000, 192089072, 192093072, 192096100, 192096164, 192096172,
    192096188, 192097072, 192101024, 192101072, 192101088, 192109072, 192112114, 192112174,
    192113072, 192117072, 192120123, 192120177, 192120189, 192121072, 192129120, 192130112,
    192131072, 192133253, 192135255, 192137104, 192138112, 192139072, 192140236, 192144182,
    192144190, 192145072, 192146112, 192146144, 192146992, 192147072, 192147120, 192148244,
    192152153, 192152181, 192152183, 192152189, 192153072, 192153120, 192153152, 192154112,
    192154144, 192154234, 192155072, 192155152, 192159231, 192161152, 192162112, 192162144,
    192163072, 192163152, 192166214, 192168173, 192168191, 192169152, 192169168, 192170112,
    192170144, 192171024, 192171072, 192171120, 192171136, 192171152, 192171168, 192173213,
    192174254, 192176992, 192177152, 192177168, 192177249, 192178080, 192178112, 192178144,
    192178176, 192179088, 192179152, 192179168, 192181205, 192181221, 192182230, 192183223,
    192184189, 192185024, 192185136, 192185152, 192185168, 192185184, 192186048, 192186112,
    192186144, 192186176, 192187072, 192187152, 192187168, 192187184, 192189197, 192189229,
    192190238, 192191215, 192193073, 192193153, 192193169, 192193185, 192194114, 192194146,
    192194178, 192195075, 192195123, 192195155, 192195171, 192195187, 192196036, 192196224,
    192196997, 192197200, 192197216, 192197232, 192199200, 192199216, 192199232, 192200008,
    192200193, 192200195, 192200985, 192201161, 192202154, 192202186, 192203163, 192203179,
    192205216, 192205232, 192206208, 192206240, 192208194, 192208202, 192209169, 192210130,
    192211171, 192211187, 192212224, 192213216, 192213232, 192216193, 192216195, 192216203,
    192216209, 192216211, 192217097, 192218170, 192219179, 192220224, 192221232, 192225185,
    192226146, 192227027, 192227059, 192227187, 192229232, 192232193, 192232195, 192232209,
    192232211, 192233994, 192234186, 192240194, 192240226, 192241121, 192242002, 192243123,
    192250170, 192992998, 192993148, 193001009, 193001153, 193025032, 193025158, 193033037,
    193033157, 193049055, 193049163, 193057993, 193060041, 193061033, 193069033, 193073074,
    193073076, 193073078, 193073164, 193073166, 193073168, 193073188, 193085033, 193089001,
    193093033, 193097101, 193097165, 193097173, 193097189, 193101033, 193109033, 193113115,
    193113175, 193115049, 193117033, 193121124, 193121172, 193121178, 193121190, 193130121,
    193131113, 193132252, 193134254, 193138105, 193139113, 193141237, 193145183, 193145191,
    193146073, 193147113, 193147145, 193149245, 193153154, 193153180, 193153182, 193153184,
    193153190, 193154073, 193154121, 193154153, 193155113, 193155145, 193155235, 193160232,
    193162153, 193163113, 193163145, 193167215, 193169172, 193169174, 193169188, 193169192,
    193170153, 193170169, 193171113, 193171145, 193172196, 193172212, 193172244, 193174214,
    193175255, 193177993, 193178153, 193178169, 193178250, 193179081, 193179113, 193179145,
    193179177, 193180204, 193180220, 193182206, 193182222, 193183231, 193184224, 193185188,
    193185190, 193186025, 193186137, 193186153, 193186169, 193186185, 193187049, 193187113,
    193187145, 193187177, 193188196, 193188212, 193190198, 193190230, 193191239, 193192216,
    193194074, 193194154, 193194170, 193194186, 193195115, 193195147, 193195179, 193196201,
    193196217, 193196233, 193197225, 193197998, 193198201, 193198217, 193198233, 193200201,
    193200217, 193200233, 193201009, 193201194, 193201986, 193202162, 193203155, 193203187,
    193204217, 193204233, 193206217, 193206233, 193207209, 193207241, 193209195, 193209203,
    193210170, 193211131, 193212217, 193212233, 193213225, 193214217, 193214233, 193217194,
    193217210, 193219171, 193220233, 193221225, 193222233, 193226186, 193227147, 193228233,
    193228249, 193230233, 193233194, 193233210, 193234995, 193235187, 193241195, 193241227,
    193242122, 193243003, 193251171, 193993999, 193994149, 194002010, 194002154, 194026033,
    194026159, 194034038, 194034158, 194050056, 194050164, 194050188, 194058994, 194062034,
    194068994, 194074075, 194074077, 194074079, 194074165, 194074167, 194074169, 194074189,
    194075074, 194077074, 194079074, 194081074, 194083074, 194084018, 194085074, 194087074,
    194089074, 194090002, 194093074, 194095074, 194096082, 194097074, 194098102, 194098166,
    194098174, 194098190, 194099074, 194101074, 194105074, 194109074, 194113074, 194114116,
    194114132, 194114172, 194114176, 194114188, 194116050, 194116114, 194117074, 194117106,
    194120114, 194121074, 194122125, 194122173, 194122179, 194122191, 194123074, 194124114,
    194125010, 194125122, 194128114, 194129074, 194129090, 194131074, 194131122, 194133253,
    194135255, 194137122, 194139106, 194142238, 194146066, 194146148, 194146156, 194146180,
    194146184, 194146192, 194147074, 194148228, 194150246, 194154155, 194154181, 194154183,
    194154185, 194154191, 194155074, 194155090, 194155122, 194155154, 194156236, 194161233,
    194163154, 194168216, 194170173, 194170175, 194170189, 194170193, 194171154, 194171170,
    194172220, 194172252, 194173197, 194173213, 194173245, 194175215, 194178066, 194178180,
    194178188, 194178994, 194179154, 194179170, 194179251, 194180196, 194180228, 194181205,
    194181221, 194183207, 194183223, 194184232, 194185225, 194186189, 194186191, 194187026,
    194187138, 194187154, 194187170, 194187186, 194188204, 194189197, 194189213, 194191199,
    194191231, 194192240, 194193217, 194195075, 194195155, 194195171, 194195187, 194196210,
    194197202, 194197218, 194197234, 194198226, 194198999, 194199202, 194199218, 194199234,
    194201202, 194201218, 194201234, 194202010, 194202195, 194202987, 194203163, 194204210,
    194204242, 194205218, 194205234, 194207218, 194207234, 194208210, 194208242, 194211171,
    194213218, 194213234, 194214226, 194215218, 194215234, 194218195, 194218211, 194220242,
    194221234, 194222226, 194223234, 194227187, 194228242, 194229234, 194229250, 194231234,
    194234195, 194234211, 194236242, 194243123, 194244004, 194248985, 194995000, 194995150,
    195003011, 195003155, 195027034, 195027160, 195027188, 195035039, 195035159, 195051057,
    195051165, 195051189, 195059995, 195063035, 195064987, 195069051, 195075076, 195075078,
    195075080, 195075164, 195075166, 195075168, 195075170, 195075190, 195076027, 195076075,
    195080075, 195081051, 195084075, 195085019, 195088075, 195091003, 195093051, 195096075,
    195097083, 195099103, 195099167, 195099175, 195099191, 195100075, 195104027, 195105051,
    195115117, 195115133, 195115173, 195115177, 195115189, 195117051, 195117115, 195121115,
    195123126, 195123174, 195123180, 195123192, 195124075, 195125115, 195129115, 195130075,
    195130091, 195132252, 195134254, 195138123, 195143239, 195146027, 195147067, 195147149,
    195147157, 195147181, 195147185, 195147193, 195149229, 195151247, 195153051, 195155156,
    195155164, 195155172, 195155180, 195155182, 195155184, 195155186, 195155188, 195155192,
    195156228, 195157237, 195162234, 195167035, 195169217, 195171172, 195171174, 195171176,
    195171180, 195171188, 195171190, 195171194, 195172196, 195172212, 195173221, 195173253,
    195174198, 195174214, 195174246, 195176216, 195179067, 195179181, 195179189, 195180204,
    195180220, 195180252, 195181197, 195181229, 195182206, 195182222, 195183035, 195184208,
    195184224, 195185233, 195186226, 195187188, 195187190, 195187192, 195188196, 195188212,
    195188228, 195189205, 195190198, 195190214, 195192200, 195192232, 195193241, 195194218,
    195196203, 195196219, 195196235, 195197211, 195198203, 195198219, 195198235, 195199227,
    195200000, 195200203, 195200219, 195200235, 195202203, 195202219, 195202235, 195203011,
    195204219, 195204235, 195205211, 195205243, 195206219, 195206235, 195208219, 195208235,
    195209211, 195209243, 195212219, 195212235, 195214219, 195214235, 195215227, 195216219,
    195216235, 195220235, 195221243, 195222235, 195223227, 195224235, 195228235, 195229243,
    195230235, 195230251, 195232235, 195237243, 195244251, 195249986, 195996001, 195996151,
    196004012, 196004140, 196004156, 196004188, 196010996, 196028035, 196030996, 196036040,
    196036160, 196052058, 196052166, 196052190, 196060996, 196063028, 196064036, 196070996,
    196076079, 196076081, 196076165, 196076169, 196077028, 196077060, 196077076, 196080996,
    196081012, 196081076, 196085076, 196089076, 196091028, 196092004, 196093076, 196097076,
    196100104, 196100996, 196101044, 196101076, 196104100, 196105028, 196105076, 196105092,
    196109076, 196111060, 196113076, 196116118, 196117076, 196120100, 196120996, 196121076,
    196124127, 196124181, 196125076, 196127012, 196128100, 196129076, 196130116, 196130996,
    196131076, 196131092, 196136100, 196137076, 196138116, 196139044, 196139076, 196139124,
    196140996, 196144100, 196145060, 196145124, 196146116, 196147028, 196147076, 196147140,
    196150148, 196154052, 196154084, 196154116, 196154148, 196155076, 196156157, 196157156,
    196158148, 196158238, 196159156, 196160100, 196160996, 196161028, 196161076, 196161140,
    196161156, 196162116, 196162148, 196163076, 196163108, 196163124, 196163156, 196165156,
    196166148, 196167156, 196168036, 196168100, 196168164, 196169076, 196169124, 196169156,
    196169988, 196170116, 196170148, 196170996, 196171076, 196171156, 196173012, 196173156,
    196173172, 196174148, 196175028, 196175076, 196175124, 196175140, 196175156, 196175172,
    196176100, 196176164, 196177044, 196177076, 196177156, 196177172, 196178116, 196178148,
    196179060, 196179076, 196179156, 196179172, 196181156, 196181172, 196181253, 196182116,
    196182148, 196182180, 196183092, 196183156, 196183172, 196184036, 196184100, 196184164,
    196185076, 196185108, 196185156, 196185172, 196186116, 196186148, 196186180, 196187076,
    196187124, 196187156, 196187172, 196189028, 196189140, 196189156, 196189172, 196189188,
    196190116, 196190148, 196190180, 196190996, 196191076, 196191156, 196191172, 196191188,
    196192100, 196192164, 196193076, 196193124, 196193156, 196193172, 196193188, 196194116,
    196194148, 196194180, 196195076, 196195156, 196195172, 196195188, 196197077, 196197157,
    196197173, 196197189, 196198118, 196198150, 196198182, 196199079, 196199127, 196199159,
    196199175, 196199191, 196200040, 196200104, 196200168, 196201001, 196201081, 196201161,
    196201177, 196201193, 196202058, 196202122, 196202154, 196202186, 196203035, 196203083,
    196203147, 196203163, 196203179, 196203195, 196204012, 196204197, 196204199, 196204201,
    196204203, 196204989, 196205165, 196206158, 196206190, 196207167, 196207183, 196208176,
    196209105, 196209169, 196209185, 196210098, 196210130, 196210162, 196210194, 196211011,
    196211091, 196211139, 196211171, 196211187, 196212198, 196212202, 196212206, 196212210,
    196213173, 196214134, 196215175, 196215191, 196216120, 196216184, 196217097, 196217161,
    196217177, 196217193, 196218138, 196218170, 196219099, 196219179, 196219195, 196220197,
    196220199, 196220201, 196220203, 196220207, 196220209, 196220211, 196220213, 196220215,
    196220217, 196220219, 196221101, 196222174, 196223103, 196223183, 196224064, 196224192,
    196225105, 196225185, 196226082, 196226146, 196226178, 196227187, 196228200, 196228208,
    196228216, 196228224, 196229189, 196230150, 196231031, 196231063, 196231191, 196232072,
    196233113, 196233193, 196234154, 196234186, 196235115, 196235131, 196235163, 196235195,
    196236044, 196236197, 196236199, 196236201, 196236203, 196236209, 196236211, 196236213,
    196236215, 196236217, 196236219, 196236225, 196236227, 196236235, 196237998, 196238190,
    196240144, 196241025, 196241041, 196242002, 196242162, 196242194, 196244198, 196244202,
    196244210, 196244218, 196244226, 196244230, 196244234, 196245125, 196246006, 196247127,
    196248152, 196249129, 196250010, 196250170, 196250987, 196251131, 196252203, 196252217,
    196254174, 196997002, 196997152, 197005013, 197005157, 197029036, 197029148, 197037041,
    197037161, 197053059, 197053167, 197061997, 197064045, 197065037, 197073037, 197077078,
    197077080, 197077082, 197077166, 197077170, 197077172, 197089037, 197093005, 197097037,
    197101105, 197105037, 197105101, 197113037, 197117119, 197119053, 197121037, 197121101,
    197125128, 197125140, 197125182, 197129101, 197130077, 197131053, 197131117, 197137037,
    197137101, 197138077, 197139117, 197145037, 197145101, 197146061, 197146125, 197147117,
    197151149, 197151997, 197153037, 197155053, 197155085, 197155117, 197155149, 197157158,
    197157188, 197158157, 197159149, 197159239, 197160157, 197161037, 197161101, 197161997,
    197162029, 197162077, 197162141, 197162157, 197163117, 197163149, 197164236, 197166157,
    197167149, 197168157, 197169037, 197169101, 197169165, 197170077, 197170125, 197170157,
    197170989, 197171117, 197171149, 197173196, 197174157, 197174173, 197175149, 197176029,
    197176077, 197176125, 197176141, 197176157, 197176173, 197177037, 197177101, 197177165,
    197178045, 197178077, 197178157, 197178173, 197179053, 197179117, 197179149, 197181997,
    197182157, 197182173, 197182254, 197183117, 197183149, 197183181, 197184093, 197184157,
    197184173, 197185037, 197185101, 197185165, 197186077, 197186109, 197186157, 197186173,
    197187117, 197187149, 197187181, 197188228, 197190029, 197190141, 197190157, 197190173,
    197190189, 197191053, 197191117, 197191149, 197191181, 197192077, 197192157, 197192173,
    197192189, 197193037, 197193101, 197193165, 197194077, 197194125, 197194157, 197194173,
    197194189, 197195117, 197195149, 197195181, 197196220, 197198078, 197198158, 197198174,
    197198190, 197199119, 197199151, 197199183, 197200080, 197200128, 197200160, 197200176,
    197200192, 197201041, 197201105, 197201169, 197202002, 197202082, 197202162, 197202178,
    197202194, 197203059, 197203123, 197203155, 197203187, 197204205, 197204221, 197204237,
    197205013, 197205198, 197205200, 197205202, 197205990, 197206166, 197207159, 197207191,
    197208168, 197208184, 197209177, 197210170, 197210186, 197211099, 197211131, 197211163,
    197211195, 197213199, 197213203, 197213207, 197213211, 197214174, 197215135, 197216176,
    197216192, 197217121, 197217185, 197218098, 197218162, 197218178, 197218194, 197219139,
    197219171, 197221198, 197221200, 197221202, 197221208, 197221210, 197221214, 197221216,
    197221218, 197222102, 197223175, 197224104, 197224184, 197225065, 197225193, 197226186,
    197227083, 197227147, 197227179, 197229201, 197229209, 197229217, 197229225, 197230190,
    197231151, 197232032, 197232064, 197232192, 197233073, 197234114, 197234194, 197235155,
    197235187, 197237198, 197237200, 197237202, 197237210, 197237214, 197237216, 197237218,
    197237226, 197238999, 197239191, 197241145, 197242026, 197242042, 197243003, 197243163,
    197243195, 197245199, 197245203, 197245211, 197245219, 197245227, 197245231, 197245235,
    197246126, 197247007, 197248128, 197249153, 197250130, 197251011, 197251171, 197253218,
    197255175, 197998003, 197998153, 198006014, 198006158, 198030037, 198038042, 198038162,
    198054060, 198054168, 198062998, 198065030, 198065046, 198072998, 198078081, 198078083,
    198078173, 198079078, 198081078, 198083078, 198085078, 198087078, 198088022, 198089078,
    198091078, 198093078, 198094006, 198095078, 198097078, 198099078, 198100086, 198101078,
    198102106, 198103078, 198105078, 198107078, 198107094, 198109078, 198113078, 198115078,
    198117078, 198118120, 198118180, 198119078, 198120054, 198120118, 198121078, 198121110,
    198123078, 198124118, 198125078, 198126183, 198127078, 198128086, 198128118, 198129014,
    198129078, 198129126, 198130102, 198131078, 198135126, 198136118, 198137078, 198138038,
    198138102, 198139078, 198143110, 198144118, 198145078, 198146038, 198146102, 198147062,
    198147078, 198147126, 198150188, 198150196, 198151078, 198152118, 198152150, 198152998,
    198153078, 198153126, 198154038, 198154102, 198155078, 198158159, 198158189, 198159078,
    198159126, 198159158, 198160118, 198160150, 198160240, 198161078, 198161158, 198162038,
    198162102, 198162998, 198163030, 198163078, 198163142, 198163158, 198165237, 198167158,
    198168118, 198168150, 198169078, 198169158, 198170038, 198170102, 198170166, 198171078,
    198171126, 198171158, 198172220, 198174197, 198175158, 198175174, 198176118, 198176150,
    198177030, 198177078, 198177126, 198177142, 198177158, 198177174, 198178038, 198178102,
    198178166, 198179046, 198179078, 198179158, 198179174, 198182998, 198183158, 198183174,
    198183255, 198184086, 198184118, 198184150, 198184182, 198185094, 198185158, 198185174,
    198186038, 198186102, 198186166, 198187078, 198187110, 198187158, 198187174, 198188236,
    198189229, 198191030, 198191142, 198191158, 198191174, 198191190, 198192054, 198192118,
    198192150, 198192182, 198193078, 198193158, 198193174, 198193190, 198194038, 198194102,
    198194166, 198195078, 198195126, 198195158, 198195174, 198195190, 198196244, 198197221,
    198199079, 198199159, 198199175, 198199191, 198200120, 198200152, 198200184, 198201081,
    198201129, 198201161, 198201177, 198201193, 198202042, 198202106, 198202170, 198203003,
    198203083, 198203163, 198203179, 198203195, 198204060, 198205206, 198205222, 198205238,
    198206014, 198206199, 198206201, 198206203, 198206991, 198207167, 198208160, 198208192,
    198209169, 198209185, 198210178, 198211171, 198211187, 198212214, 198212246, 198214200,
    198214208, 198215175, 198216136, 198217177, 198217193, 198218122, 198218186, 198219099,
    198219163, 198219179, 198219195, 198222199, 198222201, 198222203, 198222209, 198222211,
    198222215, 198222217, 198222219, 198223103, 198224176, 198225105, 198225185, 198226194,
    198227187, 198228084, 198230202, 198230210, 198230218, 198230226, 198231191, 198232152,
    198233033, 198233065, 198233193, 198235115, 198235195, 198238199, 198238201, 198238203,
    198238211, 198238215, 198238217, 198238219, 198238227, 198240000, 198240192, 198242146,
    198243027, 198243043, 198246200, 198246232, 198247127, 198248008, 198249129, 198250154,
    198251131, 198252012, 198254219, 198999004, 198999154, 199007015, 199007159, 199031038,
    199031164, 199039043, 199039163, 199055061, 199055169, 199063999, 199067039, 199068991,
    199073055, 199079082, 199079084, 199079172, 199079174, 199080031, 199080063, 199080079,
    199084079, 199085055, 199088079, 199089023, 199092079, 199095007, 199096079, 199097055,
    199100079, 199101087, 199103107, 199104079, 199108031, 199108079, 199108095, 199109055,
    199116079, 199119121, 199119181, 199120079, 199121055, 199121119, 199124079, 199125119,
    199127184, 199127196, 199128079, 199129087, 199129119, 199130015, 199130079, 199130127,
    199131103, 199136127, 199137119, 199138079, 199139039, 199139103, 199144111, 199145119,
    199146079, 199147039, 199147103, 199151189, 199151197, 199152079, 199153119, 199153151,
    199153999, 199154079, 199154127, 199155039, 199155103, 199159160, 199159188, 199159190,
    199159196, 199160079, 199160127, 199160159, 199161119, 199161151, 199161241, 199162079,
    199162159, 199163039, 199163103, 199166238, 199168159, 199169119, 199169151, 199170079,
    199170159, 199171039, 199171103, 199171167, 199173221, 199175180, 199175198, 199176159,
    199176175, 199177119, 199177151, 199178031, 199178079, 199178127, 199178143, 199178159,
    199178175, 199179039, 199179103, 199179167, 199180220, 199183999, 199184159, 199184175,
    199185087, 199185119, 199185151, 199185183, 199186095, 199186159, 199186175, 199187039,
    199187103, 199187167, 199188212, 199188228, 199189237, 199190230, 199191196, 199192031,
    199192143, 199192159, 199192175, 199192191, 199193055, 199193119, 199193151, 199193183,
    199194079, 199194159, 199194175, 199194191, 199195039, 199195103, 199195167, 199196204,
    199196236, 199197245, 199198222, 199200080, 199200160, 199200176, 199200192, 199201121,
    199201153, 199201185, 199202082, 199202130, 199202162, 199202178, 199202194, 199203043,
    199203107, 199203171, 199204207, 199204223, 199204239, 199206207, 199206223, 199206239,
    199207015, 199207200, 199207202, 199207992, 199208168, 199209161, 199209193, 199210170,
    199210186, 199211179, 199212223, 199212239, 199213215, 199213247, 199215201, 199215209,
    199216176, 199217137, 199218178, 199218194, 199219123, 199219187, 199220223, 199220239,
    199223200, 199223202, 199223210, 199223216, 199223218, 199224104, 199225177, 199226186,
    199227195, 199228239, 199229085, 199231203, 199231211, 199231219, 199231227, 199232192,
    199233153, 199234034, 199234066, 199234194, 199236239, 199239200, 199239202, 199239216,
    199239218, 199241001, 199241193, 199243147, 199247201, 199247233, 199248128, 199249009,
    199250130, 199251155, 200000005, 200000155, 200008016, 200008160, 200032039, 200032165,
    200040044, 200040164, 200056062, 200056170, 200065000, 200068040, 200080083, 200080085,
    200080173, 200080175, 200081032, 200081064, 200081080, 200085080, 200089080, 200093080,
    200096008, 200097080, 200101080, 200104108, 200104172, 200104180, 200104196, 200105080,
    200109032, 200109080, 200109096, 200117080, 200120122, 200120182, 200121080, 200125080,
    200128185, 200128197, 200129080, 200130088, 200130120, 200131016, 200131080, 200131128,
    200137128, 200138120, 200139080, 200145112, 200146120, 200147080, 200148244, 200152190,
    200152198, 200153080, 200154120, 200154152, 200155000, 200155080, 200155128, 200156252,
    200160161, 200160189, 200160191, 200160197, 200161080, 200161128, 200161160, 200162120,
    200162152, 200162242, 200163080, 200163160, 200167239, 200169160, 200170120, 200170152,
    200171080, 200171160, 200174222, 200176181, 200176199, 200177160, 200177176, 200178120,
    200178152, 200179032, 200179080, 200179128, 200179144, 200179160, 200179176, 200181221,
    200185000, 200185160, 200185176, 200186088, 200186120, 200186152, 200186184, 200187096,
    200187160, 200187176, 200189213, 200189229, 200190238, 200191231, 200192197, 200193032,
    200193144, 200193160, 200193176, 200193192, 200194056, 200194120, 200194152, 200194184,
    200195080, 200195160, 200195176, 200195192, 200197205, 200197237, 200198246, 200199223,
    200201081, 200201161, 200201177, 200201193, 200202122, 200202154, 200202186, 200203083,
    200203131, 200203163, 200203179, 200203195, 200204044, 200204232, 200205005, 200205208,
    200205224, 200205240, 200207208, 200207224, 200207240, 200208016, 200208201, 200208203,
    200208993, 200209169, 200210162, 200210194, 200211171, 200211187, 200213224, 200213240,
    200214216, 200214248, 200216202, 200216210, 200217177, 200218138, 200219179, 200219195,
    200220232, 200221224, 200221240, 200224201, 200224203, 200224211, 200224217, 200224219,
    200225105, 200226178, 200227187, 200228232, 200229240, 200233193, 200234154, 200235035,
    200235067, 200235195, 200237240, 200240201, 200240203, 200240217, 200240219, 200242002,
    200242194, 200248202, 200248234, 200249129, 200250010, 200251131, 200984994, 200985156,
    201001006, 201001156, 201009017, 201009161, 201029985, 201033040, 201033166, 201040033,
    201041045, 201041165, 201054033, 201057063, 201057171, 201068033, 201068049, 201069041,
    201077041, 201081082, 201081084, 201081086, 201081172, 201081174, 201081176, 201081196,
    201093041, 201097009, 201101041, 201105109, 201105173, 201105181, 201105197, 201109041,
    201117041, 201121123, 201121183, 201123057, 201125041, 201129132, 201129180, 201129186,
    201129198, 201130081, 201131089, 201131121, 201138129, 201139121, 201146113, 201147121,
    201149245, 201153191, 201153199, 201154081, 201155121, 201155153, 201157253, 201161162,
    201161188, 201161190, 201161192, 201161198, 201162081, 201162129, 201162161, 201163121,
    201163153, 201163243, 201168240, 201170161, 201171121, 201171153, 201175223, 201177180,
    201177182, 201177196, 201177200, 201178161, 201178177, 201179121, 201179153, 201180204,
    201180220, 201180252, 201182222, 201186001, 201186161, 201186177, 201187089, 201187121,
    201187153, 201187185, 201188212, 201188228, 201190214, 201190230, 201191239, 201192232,
    201193196, 201193198, 201194033, 201194145, 201194161, 201194177, 201194193, 201195057,
    201195121, 201195153, 201195185, 201196204, 201196220, 201198206, 201198238, 201199247,
    201200224, 201202082, 201202162, 201202178, 201202194, 201203123, 201203155, 201203187,
    201204209, 201204225, 201204241, 201205233, 201206006, 201206209, 201206225, 201206241,
    201208209, 201208225, 201208241, 201209017, 201209202, 201209994, 201210170, 201211163,
    201211195, 201212225, 201212241, 201214225, 201214241, 201215217, 201215249, 201217203,
    201217211, 201218178, 201219139, 201220225, 201220241, 201221233, 201222225, 201222241,
    201225202, 201225218, 201227179, 201228241, 201229233, 201230241, 201234194, 201235155,
    201236241, 201238241, 201241202, 201241218, 201243003, 201243195, 201249203, 201249235,
    201250130, 201251011, 201985995, 201986157, 202002007, 202002157, 202010018, 202010162,
    202030986, 202034041, 202034167, 202042046, 202042166, 202058064, 202058172, 202058196,
    202067002, 202069034, 202069050, 202077002, 202082083, 202082085, 202082087, 202082173,
    202082175, 202082177, 202082197, 202083082, 202084986, 202085082, 202087082, 202089082,
    202091082, 202092026, 202093082, 202095082, 202097082, 202098010, 202101082, 202103082,
    202104090, 202105082, 202106110, 202106174, 202106182, 202106198, 202107082, 202109082,
    202113082, 202117082, 202121082, 202122124, 202122140, 202122180, 202122184, 202122196,
    202124058, 202124122, 202125082, 202125114, 202128122, 202129082, 202130133, 202130181,
    202130187, 202130199, 202131082, 202136122, 202137082, 202137098, 202139082, 202139130,
    202147114, 202150246, 202154074, 202154156, 202154164, 202154188, 202154192, 202154200,
    202155082, 202156236, 202158254, 202162163, 202162189, 202162191, 202162193, 202162199,
    202163082, 202163098, 202163130, 202163162, 202164244, 202169241, 202171162, 202176224,
    202178181, 202178183, 202178197, 202178201, 202179162, 202179178, 202180228, 202181205,
    202181221, 202181253, 202183223, 202186074, 202186188, 202186196, 202187002, 202187162,
    202187178, 202188204, 202188236, 202189213, 202189229, 202191215, 202191231, 202192240,
    202193233, 202194197, 202194199, 202195034, 202195146, 202195162, 202195178, 202195194,
    202196212, 202197205, 202197221, 202199207, 202199239, 202200248, 202201225, 202203083,
    202203163, 202203179, 202203195, 202204218, 202205210, 202205226, 202205242, 202206234,
    202207007, 202207210, 202207226, 202207242, 202209210, 202209226, 202209242, 202210018,
    202210203, 202210995, 202211171, 202212218, 202212250, 202213226, 202213242, 202215226,
    202215242, 202216218, 202216250, 202219179, 202221226, 202221242, 202222234, 202223226,
    202223242, 202226203, 202226219, 202228250, 202229242, 202230234, 202231242, 202235195,
    202236250, 202237242, 202239242, 202242203, 202242219, 202244250, 202251131, 202252012,
    202986996, 202987140, 202987158, 203003008, 203003158, 203011019, 203011163, 203031987,
    203035042, 203035168, 203035196, 203042035, 203043047, 203043167, 203059065, 203059173,
    203059197, 203065059, 203068003, 203071043, 203072995, 203077059, 203083084, 203083086,
    203083088, 203083172, 203083174, 203083176, 203083178, 203083198, 203084083, 203088083,
    203089059, 203092083, 203093027, 203096083, 203099011, 203101059, 203104083, 203105091,
    203107111, 203107175, 203107183, 203107199, 203108083, 203113059, 203123125, 203123141,
    203123181, 203123185, 203123197, 203125059, 203125123, 203129123, 203130083, 203131011,
    203131134, 203131182, 203131188, 203131200, 203137123, 203138083, 203138099, 203151247,
    203155075, 203155157, 203155165, 203155189, 203155193, 203155201, 203157237, 203159255,
    203161059, 203163164, 203163172, 203163180, 203163188, 203163190, 203163192, 203163194,
    203163196, 203163200, 203164236, 203165245, 203170242, 203175043, 203177225, 203179180,
    203179182, 203179184, 203179188, 203179196, 203179198, 203179202, 203180204, 203180220,
    203181229, 203182206, 203182222, 203182254, 203184224, 203187075, 203187189, 203187197,
    203188212, 203188228, 203189205, 203189237, 203190214, 203190230, 203191043, 203192216,
    203192232, 203193241, 203194234, 203195196, 203195198, 203195200, 203196204, 203196220,
    203196236, 203197213, 203198206, 203198222, 203200208, 203200240, 203201249, 203202226,
    203204211, 203204227, 203204243, 203205219, 203206211, 203206227, 203206243, 203207235,
    203208008, 203208211, 203208227, 203208243, 203210211, 203210227, 203210243, 203211019,
    203212227, 203212243, 203213219, 203213251, 203214227, 203214243, 203216227, 203216243,
    203217219, 203217251, 203220227, 203220243, 203222227, 203222243, 203223235, 203224227,
    203224243, 203228243, 203229251, 203230243, 203231235, 203232243, 203236243, 203237251,
    203238243, 203240243, 203245251, 203987997, 203988159, 204004009, 204004159, 204012020,
    204012148, 204012164, 204012196, 204019004, 204032988, 204036043, 204039004, 204044048,
    204044168, 204050988, 204060066, 204060174, 204060198, 204068988, 204069004, 204071036,
    204072044, 204079004, 204084087, 204084089, 204084173, 204084177, 204085036, 204085068,
    204085084, 204086988, 204089004, 204089020, 204089084, 204093084, 204097084, 204099036,
    204100012, 204101084, 204105084, 204108112, 204109004, 204109052, 204109084, 204112108,
    204113036, 204113084, 204113100, 204117084, 204119068, 204121084, 204122988, 204124126,
    204125084, 204128108, 204129004, 204129084, 204130124, 204131084, 204132189, 204135020,
    204135132, 204136108, 204137084, 204138124, 204139004, 204139084, 204139100, 204141132,
    204144108, 204145084, 204146124, 204147052, 204147084, 204147132, 204149004, 204152108,
    204153068, 204153132, 204154124, 204155036, 204155084, 204155148, 204158156, 204159132,
    204162060, 204162092, 204162124, 204162156, 204163084, 204164165, 204165132, 204165164,
    204166156, 204166246, 204167164, 204168108, 204169004, 204169036, 204169084, 204169148,
    204169164, 204170124, 204170156, 204171084, 204171116, 204171132, 204171164, 204173164,
    204174156, 204175164, 204176044, 204176108, 204176172, 204176988, 204177084, 204177132,
    204177164, 204177996, 204178124, 204178156, 204179004, 204179084, 204179164, 204181020,
    204181164, 204181180, 204182156, 204183036, 204183084, 204183132, 204183148, 204183164,
    204183180, 204184108, 204184172, 204185052, 204185084, 204185164, 204185180, 204186124,
    204186156, 204187068, 204187084, 204187164, 204187180, 204189164, 204189180, 204190124,
    204190156, 204190188, 204191100, 204191164, 204191180, 204192044, 204192108, 204192172,
    204193084, 204193116, 204193164, 204193180, 204194124, 204194156, 204194188, 204194988,
    204195084, 204195132, 204195164, 204195180, 204197036, 204197148, 204197164, 204197180,
    204197196, 204198124, 204198156, 204198188, 204199004, 204199084, 204199164, 204199180,
    204199196, 204200108, 204200172, 204201084, 204201132, 204201164, 204201180, 204201196,
    204202124, 204202156, 204202188, 204203084, 204203164, 204203180, 204203196, 204205085,
    204205165, 204205181, 204205197, 204206126, 204206158, 204206190, 204207087, 204207135,
    204207167, 204207183, 204207199, 204208048, 204208112, 204208176, 204209009, 204209089,
    204209169, 204209185, 204209201, 204210066, 204210130, 204210162, 204210194, 204211043,
    204211091, 204211155, 204211171, 204211187, 204211203, 204212020, 204212205, 204212207,
    204212209, 204212211, 204212997, 204213173, 204214166, 204214198, 204215175, 204215191,
    204216184, 204217113, 204217177, 204217193, 204218106, 204218138, 204218170, 204218202,
    204219019, 204219099, 204219147, 204219179, 204219195, 204220206, 204220210, 204220214,
    204220218, 204221181, 204222142, 204223183, 204223199, 204224128, 204224192, 204225105,
    204225169, 204225185, 204225201, 204226146, 204226178, 204227107, 204227187, 204227203,
    204228205, 204228207, 204228209, 204228211, 204228215, 204228217, 204228219, 204228221,
    204228223, 204228225, 204228227, 204229109, 204230182, 204231111, 204231191, 204232072,
    204232200, 204233113, 204233193, 204234090, 204234154, 204234186, 204235195, 204236208,
    204236216, 204236224, 204236232, 204237197, 204238158, 204239039, 204239071, 204239199,
    204240080, 204241121, 204241201, 204242162, 204242194, 204243123, 204243139, 204243171,
    204243203, 204244052, 204244205, 204244207, 204244209, 204244211, 204244217, 204244219,
    204244221, 204244223, 204244225, 204244227, 204244233, 204244235, 204244243, 204246006,
    204246198, 204248152, 204249033, 204249049, 204250010, 204250170, 204250202, 204252206,
    204252210, 204252218, 204252226, 204252234, 204252238, 204252242, 204253133, 204254014,
    204255135, 204988998, 204989160, 205005010, 205005160, 205013021, 205013165, 205033989,
    205037044, 205044037, 205045049, 205045169, 205058037, 205061067, 205061175, 205065045,
    205072037, 205072053, 205073045, 205081045, 205085086, 205085088, 205085090, 205085174,
    205085178, 205085180, 205097045, 205101013, 205105045, 205109113, 205113045, 205113109,
    205120069, 205121045, 205125127, 205127061, 205129045, 205129109, 205130085, 205131125,
    205133190, 205136133, 205137109, 205138085, 205139061, 205139125, 205142133, 205145045,
    205145109, 205146085, 205147125, 205153045, 205153109, 205154069, 205154133, 205155125,
    205159157, 205160005, 205160133, 205161045, 205163061, 205163093, 205163125, 205163157,
    205165166, 205165196, 205166133, 205166165, 205167157, 205167247, 205168165, 205169045,
    205169109, 205170005, 205170037, 205170085, 205170149, 205170165, 205171125, 205171157,
    205172244, 205174165, 205175157, 205176165, 205177045, 205177109, 205177173, 205177989,
    205178085, 205178133, 205178165, 205178997, 205179125, 205179157, 205181204, 205182165,
    205182181, 205183157, 205184037, 205184085, 205184133, 205184149, 205184165, 205184181,
    205185045, 205185109, 205185173, 205186053, 205186085, 205186165, 205186181, 205187061,
    205187125, 205187157, 205190005, 205190165, 205190181, 205191125, 205191157, 205191189,
    205192101, 205192165, 205192181, 205193045, 205193109, 205193173, 205194085, 205194117,
    205194165, 205194181, 205195125, 205195157, 205195189, 205196236, 205198037, 205198149,
    205198165, 205198181, 205198197, 205199061, 205199125, 205199157, 205199189, 205200085,
    205200165, 205200181, 205200197, 205201045, 205201109, 205201173, 205202085, 205202133,
    205202165, 205202181, 205202197, 205203125, 205203157, 205203189, 205204228, 205206086,
    205206166, 205206182, 205206198, 205207127, 205207159, 205207191, 205208088, 205208136,
    205208168, 205208184, 205208200, 205209049, 205209113, 205209177, 205210010, 205210090,
    205210170, 205210186, 205210202, 205211067, 205211131, 205211163, 205211195, 205212213,
    205212229, 205212245, 205213021, 205213206, 205213208, 205213210, 205213998, 205214174,
    205215167, 205215199, 205216176, 205216192, 205217185, 205218178, 205218194, 205219107,
    205219139, 205219171, 205219203, 205221207, 205221211, 205221215, 205221219, 205222182,
    205223143, 205224184, 205224200, 205225129, 205225193, 205226106, 205226170, 205226186,
    205226202, 205227147, 205227179, 205229206, 205229208, 205229210, 205229216, 205229218,
    205229222, 205229224, 205229226, 205230110, 205231183, 205232112, 205232192, 205233073,
    205233201, 205234194, 205235091, 205235155, 205235187, 205237209, 205237217, 205237225,
    205237233, 205238198, 205239159, 205240040, 205240072, 205240200, 205241081, 205242122,
    205242202, 205243163, 205243195, 205245206, 205245208, 205245210, 205245218, 205245222,
    205245224, 205245226, 205245234, 205247007, 205247199, 205249153, 205250034, 205250050,
    205251011, 205251171, 205251203, 205253207, 205253211, 205253219, 205253227, 205253235,
    205253239, 205253243, 205254134, 205255015, 205989999, 205990161, 206006011, 206006161,
    206014022, 206014166, 206038045, 206046050, 206046170, 206062068, 206062176, 206071006,
    206073038, 206073054, 206081006, 206086089, 206086091, 206086181, 206087070, 206087086,
    206088990, 206089086, 206091086, 206093086, 206095086, 206096030, 206097086, 206099086,
    206101086, 206102014, 206103086, 206105086, 206107086, 206108094, 206109086, 206110114,
    206111086, 206113086, 206115086, 206115102, 206117086, 206121070, 206121086, 206123086,
    206125086, 206126128, 206126188, 206127086, 206128062, 206128126, 206129086, 206129118,
    206130046, 206130110, 206131006, 206131086, 206134191, 206135086, 206136094, 206136126,
    206137022, 206137086, 206137134, 206138110, 206139086, 206143134, 206144126, 206145086,
    206146046, 206146110, 206147086, 206151118, 206152126, 206153086, 206154046, 206154110,
    206155070, 206155086, 206155134, 206158196, 206158204, 206159086, 206160126, 206160158,
    206161006, 206161086, 206161134, 206162046, 206162110, 206163086, 206166167, 206166197,
    206167086, 206167134, 206167166, 206168126, 206168158, 206168248, 206169086, 206169166,
    206170046, 206170110, 206171006, 206171038, 206171086, 206171150, 206171166, 206173245,
    206175166, 206176126, 206176158, 206177086, 206177166, 206178046, 206178110, 206178174,
    206178990, 206179086, 206179134, 206179166, 206180228, 206182205, 206183166, 206183182,
    206184126, 206184158, 206185038, 206185086, 206185134, 206185150, 206185166, 206185182,
    206186046, 206186110, 206186174, 206187054, 206187086, 206187166, 206187182, 206191006,
    206191166, 206191182, 206192094, 206192126, 206192158, 206192190, 206193102, 206193166,
    206193182, 206194046, 206194110, 206194174, 206195086, 206195118, 206195166, 206195182,
    206196244, 206197237, 206199038, 206199150, 206199166, 206199182, 206199198, 206200062,
    206200126, 206200158, 206200190, 206201086, 206201166, 206201182, 206201198, 206202046,
    206202110, 206202174, 206203086, 206203134, 206203166, 206203182, 206203198, 206204252,
    206205229, 206207087, 206207167, 206207183, 206207199, 206208128, 206208160, 206208192,
    206209089, 206209137, 206209169, 206209185, 206209201, 206210050, 206210114, 206210178,
    206211011, 206211091, 206211171, 206211187, 206211203, 206212068, 206213214, 206213230,
    206213246, 206214022, 206214207, 206214209, 206214211, 206214999, 206215175, 206216168,
    206216200, 206217177, 206217193, 206218186, 206219179, 206219195, 206220222, 206220254,
    206222208, 206222216, 206223183, 206224144, 206225185, 206225201, 206226130, 206226194,
    206227107, 206227171, 206227187, 206227203, 206230207, 206230209, 206230211, 206230217,
    206230219, 206230223, 206230225, 206230227, 206231111, 206232184, 206233113, 206233193,
    206234202, 206235195, 206236092, 206238210, 206238218, 206238226, 206238234, 206239199,
    206240160, 206241041, 206241073, 206241201, 206243123, 206243203, 206246207, 206246209,
    206246211, 206246219, 206246223, 206246225, 206246227, 206246235, 206248008, 206248200,
    206250154, 206251035, 206251051, 206254208, 206254240, 206255135, 206991000, 206991162,
    207007012, 207007162, 207015023, 207015167, 207035991, 207039046, 207039172, 207046039,
    207047051, 207047171, 207060039, 207063069, 207063177, 207069063, 207072007, 207075047,
    207076999, 207081063, 207087090, 207087092, 207087180, 207087182, 207088039, 207088071,
    207088087, 207092087, 207093063, 207096087, 207097031, 207100087, 207103015, 207104087,
    207105063, 207108087, 207109095, 207111115, 207112087, 207116039, 207116087, 207116103,
    207117063, 207124087, 207127129, 207127189, 207128087, 207129063, 207129127, 207130087,
    207130119, 207131047, 207131111, 207135192, 207135204, 207136087, 207137095, 207137127,
    207138023, 207138087, 207138135, 207139111, 207144135, 207145127, 207146087, 207147047,
    207147111, 207152119, 207153127, 207154087, 207155047, 207155111, 207159197, 207159205,
    207160087, 207161127, 207161159, 207162007, 207162087, 207162135, 207163047, 207163111,
    207167168, 207167196, 207167198, 207167204, 207168087, 207168135, 207168167, 207169127,
    207169159, 207169249, 207170087, 207170167, 207171047, 207171111, 207174246, 207176167,
    207177127, 207177159, 207178087, 207178167, 207179047, 207179111, 207179175, 207181229,
    207183188, 207183206, 207184167, 207184183, 207185127, 207185159, 207186039, 207186087,
    207186135, 207186151, 207186167, 207186183, 207187047, 207187111, 207187175, 207188228,
    207192007, 207192167, 207192183, 207193095, 207193127, 207193159, 207193191, 207194103,
    207194167, 207194183, 207195047, 207195111, 207195175, 207196220, 207196236, 207197245,
    207198238, 207199204, 207200039, 207200151, 207200167, 207200183, 207200199, 207201063,
    207201127, 207201159, 207201191, 207202087, 207202167, 207202183, 207202199, 207203047,
    207203111, 207203175, 207204212, 207204244, 207205253, 207206230, 207208088, 207208168,
    207208184, 207208200, 207209129, 207209161, 207209193, 207210090, 207210138, 207210170,
    207210186, 207210202, 207211051, 207211115, 207211179, 207212215, 207212231, 207212247,
    207213069, 207214215, 207214231, 207214247, 207215023, 207215208, 207215210, 207216000,
    207216176, 207217169, 207217201, 207218178, 207218194, 207219187, 207220231, 207220247,
    207221223, 207221255, 207223209, 207223217, 207224184, 207225145, 207226186, 207226202,
    207227131, 207227195, 207228231, 207228247, 207231208, 207231210, 207231218, 207231224,
    207231226, 207232112, 207233185, 207234194, 207235203, 207236247, 207237093, 207239211,
    207239219, 207239227, 207239235, 207240200, 207241161, 207242042, 207242074, 207242202,
    207244247, 207247208, 207247210, 207247224, 207247226, 207249009, 207249201, 207251155,
    207255209, 207255241, 207992001, 207992163, 208008013, 208008163, 208016024, 208016168,
    208040047, 208040173, 208048052, 208048172, 208064070, 208064178, 208073008, 208076048,
    208088091, 208088093, 208088181, 208088183, 208089040, 208089072, 208089088, 208093088,
    208097088, 208101088, 208104016, 208105088, 208109088, 208112116, 208112132, 208112180,
    208112188, 208112204, 208113088, 208117040, 208117088, 208117104, 208125088, 208128130,
    208128190, 208129088, 208130064, 208130128, 208131088, 208131120, 208136193, 208136205,
    208137088, 208138096, 208138128, 208139024, 208139088, 208139136, 208145136, 208146128,
    208147088, 208153120, 208154128, 208155088, 208156252, 208160198, 208160206, 208161088,
    208162128, 208162160, 208163008, 208163088, 208163136, 208168169, 208168197, 208168199,
    208168205, 208169088, 208169136, 208169168, 208170128, 208170160, 208170250, 208171088,
    208171168, 208175247, 208177168, 208178128, 208178160, 208179088, 208179168, 208182230,
    208184189, 208184207, 208185168, 208185184, 208186128, 208186160, 208187040, 208187088,
    208187136, 208187152, 208187168, 208187184, 208189229, 208193008, 208193168, 208193184,
    208194096, 208194128, 208194160, 208194192, 208195104, 208195168, 208195184, 208197221,
    208197237, 208198246, 208199239, 208200205, 208201040, 208201152, 208201168, 208201184,
    208201200, 208202064, 208202128, 208202160, 208202192, 208203088, 208203168, 208203184,
    208203200, 208205213, 208205245, 208206254, 208207231, 208209089, 208209169, 208209185,
    208209201, 208210130, 208210162, 208210194, 208211091, 208211139, 208211171, 208211187,
    208211203, 208212052, 208212240, 208213013, 208213216, 208213232, 208213248, 208215216,
    208215232, 208215248, 208216024, 208216209, 208216211, 208217001, 208217177, 208218170,
    208218202, 208219179, 208219195, 208221232, 208221248, 208222224, 208224210, 208224218,
    208225185, 208226146, 208227187, 208227203, 208228240, 208229232, 208229248, 208232209,
    208232211, 208232219, 208232225, 208232227, 208233113, 208234186, 208235195, 208236240,
    208237248, 208241201, 208242162, 208243043, 208243075, 208243203, 208245248, 208248209,
    208248211, 208248225, 208248227, 208250010, 208250202, 208993002, 208993164, 209009014,
    209009164, 209017025, 209017169, 209037993, 209041048, 209041174, 209048041, 209049053,
    209049173, 209062041, 209065071, 209065179, 209069049, 209076041, 209076057, 209077049,
    209085049, 209089090, 209089092, 209089094, 209089180, 209089182, 209089184, 209089204,
    209099033, 209101049, 209105017, 209109049, 209113117, 209113133, 209113181, 209113189,
    209113205, 209117049, 209124985, 209125049, 209129131, 209129191, 209130089, 209131065,
    209131129, 209137140, 209137188, 209137194, 209137206, 209138089, 209139097, 209139129,
    209146137, 209147129, 209154121, 209155129, 209157253, 209161199, 209161207, 209162089,
    209163129, 209163161, 209169170, 209169196, 209169198, 209169200, 209169206, 209170089,
    209170137, 209170169, 209171129, 209171161, 209171251, 209176248, 209178169, 209179129,
    209179161, 209183231, 209185188, 209185190, 209185204, 209185208, 209186169, 209186185,
    209187129, 209187161, 209188212, 209188228, 209190230, 209194009, 209194169, 209194185,
    209195097, 209195129, 209195161, 209195193, 209196220, 209196236, 209198222, 209198238,
    209199247, 209200240, 209201204, 209201206, 209202041, 209202153, 209202169, 209202185,
    209202201, 209203065, 209203129, 209203161, 209203193, 209204212, 209204228, 209206214,
    209206246, 209207255, 209208232, 209210090, 209210170, 209210186, 209210202, 209211131,
    209211163, 209211195, 209212217, 209212233, 209212249, 209213241, 209214014, 209214217,
    209214233, 209214249, 209216217, 209216233, 209216249, 209217025, 209217210, 209218002,
    209218178, 209219171, 209219203, 209220233, 209220249, 209222233, 209222249, 209223225,
    209225211, 209225219, 209226186, 209227147, 209228233, 209228249, 209229241, 209230233,
    209230249, 209233210, 209233226, 209235187, 209236249, 209237241, 209238249, 209242202,
    209243163, 209244249, 209246249, 209249210, 209249226, 209251011, 209251203, 209994003,
    209994165, 210010015, 210010165, 210018026, 210018170, 210042049, 210042175, 210050054,
    210050174, 210066072, 210066180, 210066204, 210072066, 210075010, 210077042, 210077058,
    210084066, 210085010, 210090091, 210090093, 210090095, 210090181, 210090183, 210090185,
    210090205, 210091090, 210092994, 210093090, 210095090, 210096066, 210097090, 210099090,
    210100034, 210101090, 210103090, 210105090, 210106018, 210108066, 210109090, 210111090,
    210112098, 210113090, 210114118, 210114182, 210114190, 210114206, 210115090, 210117090,
    210120066, 210121090, 210125090, 210129090, 210130082, 210130132, 210130148, 210130164,
    210130188, 210130192, 210130204, 210131090, 210137090, 210138141, 210138189, 210138195,
    210138207, 210139090, 210145090, 210145106, 210147090, 210147138, 210155122, 210158254,
    210162082, 210162164, 210162172, 210162196, 210162200, 210162208, 210163090, 210164244,
    210168066, 210170171, 210170197, 210170199, 210170201, 210170207, 210171090, 210171106,
    210171138, 210171170, 210172252, 210177249, 210179170, 210184232, 210186189, 210186191,
    210186205, 210186209, 210187170, 210187186, 210188236, 210189213, 210189229, 210191231,
    210194082, 210194196, 210194204, 210195010, 210195170, 210195186, 210196212, 210196244,
    210197221, 210197237, 210199223, 210199239, 210200248, 210201241, 210202205, 210202207,
    210203042, 210203154, 210203170, 210203186, 210203202, 210204220, 210205213, 210205229,
    210207215, 210207247, 210209233, 210211091, 210211171, 210211187, 210211203, 210212226,
    210213218, 210213234, 210213250, 210214242, 210215015, 210215218, 210215234, 210215250,
    210217218, 210217234, 210217250, 210218026, 210218211, 210219003, 210219179, 210220226,
    210221234, 210221250, 210223234, 210223250, 210224226, 210227187, 210229234, 210229250,
    210230242, 210231234, 210231250, 210234211, 210234227, 210237250, 210238242, 210239250,
    210243203, 210245250, 210247250, 210250211, 210250227, 210995004, 210995148, 210995166,
    211011016, 211011166, 211019027, 211019171, 211039995, 211043050, 211043176, 211043204,
    211050043, 211051055, 211051175, 211067073, 211067181, 211067205, 211073067, 211076011,
    211079051, 211081003, 211085067, 211091092, 211091094, 211091096, 211091180, 211091182,
    211091184, 211091186, 211091206, 211092091, 211096091, 211097067, 211100091, 211101035,
    211104091, 211107019, 211109067, 211112091, 211113099, 211115119, 211115183, 211115191,
    211115207, 211116091, 211121067, 211130091, 211131083, 211131133, 211131149, 211131165,
    211131189, 211131193, 211131205, 211138091, 211139019, 211139142, 211139190, 211139196,
    211139208, 211146091, 211146107, 211159255, 211163083, 211163165, 211163173, 211163197,
    211163201, 211163209, 211165245, 211169067, 211171172, 211171180, 211171188, 211171196,
    211171198, 211171200, 211171202, 211171204, 211171208, 211172244, 211173253, 211178250,
    211183051, 211185233, 211187188, 211187190, 211187192, 211187196, 211187204, 211187206,
    211187210, 211188212, 211188228, 211189237, 211190214, 211190230, 211192232, 211195083,
    211195197, 211195205, 211196220, 211196236, 211197213, 211197245, 211198222, 211198238,
    211199051, 211200224, 211200240, 211201249, 211202242, 211203204, 211203206, 211203208,
    211204212, 211204228, 211204244, 211205221, 211206214, 211206230, 211208216, 211208248,
    211210234, 211212219, 211212235, 211212251, 211213227, 211214219, 211214235, 211214251,
    211215243, 211216016, 211216219, 211216235, 211216251, 211218219, 211218235, 211218251,
    211219027, 211220235, 211220251, 211221227, 211222235, 211222251, 211224235, 211224251,
    211225227, 211228235, 211228251, 211230235, 211230251, 211231243, 211232235, 211232251,
    211236251, 211238251, 211239243, 211240251, 211244251, 211246251, 211248251, 211996005,
    211996167, 212012017, 212012167, 212020028, 212020156, 212020172, 212020204, 212027012,
    212040996, 212044051, 212047012, 212052056, 212052176, 212058996, 212065044, 212068074,
    212068182, 212068206, 212076996, 212077012, 212079044, 212080052, 212087012, 212092095,
    212092097, 212092181, 212092185, 212093044, 212093076, 212093092, 212094996, 212097012,
    212097028, 212097092, 212101092, 212105092, 212107044, 212108020, 212109092, 212113092,
    212116120, 212117012, 212117060, 212117092, 212120116, 212121044, 212121092, 212121108,
    212125092, 212127076, 212129092, 212130996, 212131092, 212132134, 212134132, 212136116,
    212137012, 212137092, 212138132, 212139092, 212140197, 212142132, 212143028, 212143140,
    212144116, 212145092, 212146132, 212147012, 212147092, 212147108, 212149140, 212150132,
    212152116, 212153092, 212154132, 212155060, 212155092, 212155140, 212157012, 212158132,
    212160116, 212161076, 212161140, 212162132, 212163044, 212163092, 212163156, 212166132,
    212166164, 212167140, 212170068, 212170100, 212170132, 212170164, 212171092, 212172173,
    212173140, 212173172, 212174132, 212174164, 212174254, 212175172, 212176116, 212177012,
    212177044, 212177092, 212177156, 212177172, 212178132, 212178164, 212179092, 212179124,
    212179140, 212179172, 212181172, 212182132, 212182164, 212183172, 212183988, 212184052,
    212184116, 212184180, 212184996, 212185092, 212185140, 212185172, 212186004, 212186132,
    212186164, 212187012, 212187092, 212187172, 212189028, 212189172, 212189188, 212190132,
    212190164, 212191044, 212191092, 212191140, 212191156, 212191172, 212191188, 212192116,
    212192180, 212193060, 212193092, 212193172, 212193188, 212194132, 212194164, 212195076,
    212195092, 212195172, 212195188, 212197172, 212197188, 212198132, 212198164, 212198196,
    212199108, 212199172, 212199188, 212200052, 212200116, 212200180, 212201092, 212201124,
    212201172, 212201188, 212202132, 212202164, 212202196, 212202996, 212203092, 212203140,
    212203172, 212203188, 212205044, 212205156, 212205172, 212205188, 212205204, 212206132,
    212206164, 212206196, 212207012, 212207092, 212207172, 212207188, 212207204, 212208116,
    212208180, 212209092, 212209140, 212209172, 212209188, 212209204, 212210132, 212210164,
    212210196, 212211092, 212211172, 212211188, 212211204, 212213093, 212213173, 212213189,
    212213205, 212214134, 212214166, 212214198, 212215095, 212215143, 212215175, 212215191,
    212215207, 212216056, 212216120, 212216184, 212217017, 212217097, 212217177, 212217193,
    212217209, 212218074, 212218138, 212218170, 212218202, 212219051, 212219099, 212219163,
    212219179, 212219195, 212219211, 212220028, 212220213, 212220215, 212220217, 212220219,
    212221005, 212221181, 212222174, 212222206, 212223183, 212223199, 212224192, 212225121,
    212225185, 212225201, 212225986, 212226114, 212226146, 212226178, 212226210, 212227027,
    212227107, 212227155, 212227187, 212227203, 212228214, 212228218, 212228222, 212228226,
    212229189, 212230150, 212231191, 212231207, 212232136, 212232200, 212233113, 212233177,
    212233193, 212233209, 212234154, 212234186, 212235115, 212235195, 212235211, 212236213,
    212236215, 212236217, 212236219, 212236223, 212236225, 212236227, 212236229, 212236231,
    212236233, 212236235, 212237117, 212238190, 212239119, 212239199, 212240080, 212240208,
    212241121, 212241201, 212242098, 212242162, 212242194, 212243203, 212244216, 212244224,
    212244232, 212244240, 212245205, 212246166, 212247047, 212247079, 212247207, 212248088,
    212249129, 212249209, 212250170, 212250202, 212251131, 212251147, 212251179, 212251211,
    212252060, 212252213, 212252215, 212252217, 212252219, 212252225, 212252227, 212252229,
    212252231, 212252233, 212252235, 212252241, 212252243, 212252251, 212254014, 212254206,
    212997006, 212997168, 213013018, 213013168, 213021029, 213021173, 213041997, 213045052,
    213052045, 213053057, 213053177, 213065053, 213069075, 213069183, 213069207, 213073053,
    213080045, 213080061, 213081053, 213089053, 213093094, 213093096, 213093098, 213093182,
    213093186, 213093188, 213103037, 213105053, 213109021, 213113053, 213117121, 213121053,
    213121117, 213128077, 213128989, 213129053, 213130093, 213133135, 213135133, 213137053,
    213137117, 213138093, 213139133, 213141198, 213143133, 213144141, 213145117, 213146093,
    213147037, 213147133, 213150141, 213151133, 213153053, 213153117, 213154093, 213155133,
    213159133, 213161053, 213161117, 213162077, 213162141, 213163133, 213167133, 213167165,
    213168013, 213168141, 213169053, 213171069, 213171101, 213171133, 213171165, 213173174,
    213173204, 213174141, 213174173, 213175133, 213175165, 213175255, 213176173, 213177053,
    213177117, 213178013, 213178045, 213178093, 213178157, 213178173, 213179133, 213179165,
    213180252, 213182173, 213183133, 213183165, 213184173, 213184989, 213185053, 213185117,
    213185181, 213185997, 213186093, 213186141, 213186173, 213187005, 213187133, 213187165,
    213189212, 213190173, 213190189, 213191133, 213191165, 213192045, 213192093, 213192141,
    213192157, 213192173, 213192189, 213193053, 213193117, 213193181, 213194061, 213194093,
    213194173, 213194189, 213195133, 213195165, 213198013, 213198173, 213198189, 213199133,
    213199165, 213199197, 213200109, 213200173, 213200189, 213201053, 213201117, 213201181,
    213202093, 213202125, 213202173, 213202189, 213203133, 213203165, 213203197, 213204244,
    213206045, 213206157, 213206173, 213206189, 213206205, 213207133, 213207165, 213207197,
    213208093, 213208173, 213208189, 213208205, 213209053, 213209117, 213209181, 213210093,
    213210141, 213210173, 213210189, 213210205, 213211133, 213211165, 213211197, 213212236,
    213214094, 213214174, 213214190, 213214206, 213215135, 213215167, 213215199, 213216096,
    213216144, 213216176, 213216192, 213216208, 213217057, 213217121, 213217185, 213218018,
    213218098, 213218178, 213218194, 213218210, 213219075, 213219139, 213219171, 213219203,
    213220221, 213220237, 213220253, 213221029, 213221214, 213221216, 213221218, 213222006,
    213222182, 213223175, 213223207, 213224184, 213224200, 213225193, 213226186, 213226202,
    213226987, 213227115, 213227147, 213227179, 213227211, 213229215, 213229219, 213229223,
    213229227, 213230190, 213231151, 213232192, 213232208, 213233137, 213233201, 213234114,
    213234178, 213234194, 213234210, 213235155, 213235187, 213237214, 213237216, 213237218,
    213237224, 213237226, 213237230, 213237232, 213237234, 213238118, 213239191, 213240120,
    213240200, 213241081, 213241209, 213242202, 213243099, 213243163, 213243195, 213245217,
    213245225, 213245233, 213245241, 213246206, 213247167, 213248048, 213248080, 213248208,
    213249089, 213250130, 213250210, 213251171, 213251203, 213253214, 213253216, 213253218,
    213253226, 213253230, 213253232, 213253234, 213253242, 213255015, 213255207, 213998007,
    213998169, 214014019, 214014169, 214022030, 214022174, 214046053, 214054058, 214054178,
    214070076, 214070184, 214076070, 214079014, 214081046, 214081062, 214088070, 214089014,
    214094097, 214094099, 214094189, 214095078, 214095094, 214096998, 214097094, 214099094,
    214100070, 214101094, 214103094, 214104038, 214105094, 214107094, 214109094, 214110022,
    214111094, 214112070, 214113094, 214115094, 214116102, 214117094, 214118122, 214119094,
    214121094, 214123094, 214123110, 214124070, 214125094, 214129078, 214129094, 214129990,
    214130054, 214130118, 214131094, 214134136, 214134196, 214135094, 214136070, 214136134,
    214137094, 214137126, 214138054, 214138118, 214139014, 214139094, 214142199, 214143094,
    214144102, 214144134, 214145030, 214145094, 214145142, 214146118, 214147094, 214151142,
    214152134, 214153094, 214154054, 214154118, 214155094, 214159126, 214160134, 214161094,
    214162054, 214162118, 214163078, 214163094, 214163142, 214166204, 214166212, 214167094,
    214168134, 214168166, 214169014, 214169094, 214169142, 214170054, 214170118, 214171094,
    214174175, 214174205, 214175094, 214175142, 214175174, 214176134, 214176166, 214177094,
    214177174, 214178054, 214178118, 214179014, 214179046, 214179094, 214179158, 214179174,
    214181253, 214183174, 214184134, 214184166, 214185094, 214185174, 214185990, 214186054,
    214186118, 214186182, 214186998, 214187094, 214187142, 214187174, 214188236, 214190213,
    214191174, 214191190, 214192134, 214192166, 214193046, 214193094, 214193142, 214193158,
    214193174, 214193190, 214194054, 214194118, 214194182, 214195062, 214195094, 214195174,
    214195190, 214199014, 214199174, 214199190, 214200102, 214200134, 214200166, 214200198,
    214201110, 214201174, 214201190, 214202054, 214202118, 214202182, 214203094, 214203126,
    214203174, 214203190, 214204252, 214205245, 214207046, 214207158, 214207174, 214207190,
    214207206, 214208070, 214208134, 214208166, 214208198, 214209094, 214209174, 214209190,
    214209206, 214210054, 214210118, 214210182, 214211094, 214211142, 214211174, 214211190,
    214211206, 214213237, 214215095, 214215175, 214215191, 214215207, 214216136, 214216168,
    214216200, 214217097, 214217145, 214217177, 214217193, 214217209, 214218058, 214218122,
    214218186, 214219019, 214219099, 214219179, 214219195, 214219211, 214220076, 214221222,
    214221238, 214221254, 214222030, 214222215, 214222217, 214222219, 214223007, 214223183,
    214224176, 214224208, 214225185, 214225201, 214226194, 214227187, 214227203, 214228230,
    214230216, 214230224, 214231191, 214232152, 214233193, 214233209, 214234138, 214234202,
    214235115, 214235179, 214235195, 214235211, 214238215, 214238217, 214238219, 214238225,
    214238227, 214238231, 214238233, 214238235, 214239119, 214240192, 214241121, 214241201,
    214242210, 214243203, 214244100, 214246218, 214246226, 214246234, 214246242, 214247207,
    214248168, 214249049, 214249081, 214249209, 214251131, 214251211, 214254215, 214254217,
    214254219, 214254227, 214254231, 214254233, 214254235, 214254243, 214999008, 214999170,
    215015020, 215015170, 215023031, 215023175, 215043999, 215047054, 215047180, 215054047,
    215055059, 215055179, 215068047, 215071077, 215071185, 215077071, 215080015, 215083055,
    215085007, 215089071, 215095098, 215095100, 215095188, 215095190, 215096047, 215096079,
    215096095, 215100095, 215101071, 215104095, 215105039, 215108095, 215111023, 215112095,
    215113071, 215116095, 215117103, 215119123, 215120095, 215124047, 215124095, 215124111,
    215125071, 215130079, 215130095, 215130991, 215131055, 215131119, 215135137, 215135197,
    215136095, 215137071, 215137135, 215138095, 215138127, 215139055, 215139119, 215143200,
    215143212, 215144095, 215145103, 215145135, 215146031, 215146095, 215146143, 215147119,
    215152143, 215153135, 215154095, 215155055, 215155119, 215160127, 215161135, 215162095,
    215163055, 215163119, 215167205, 215167213, 215168095, 215169135, 215169167, 215170015,
    215170095, 215170143, 215171055, 215171119, 215175176, 215175204, 215175206, 215175212,
    215176095, 215176143, 215176175, 215177135, 215177167, 215178095, 215178175, 215179055,
    215179119, 215182254, 215184175, 215185135, 215185167, 215186095, 215186175, 215186991,
    215187055, 215187119, 215187183, 215189237, 215191196, 215191214, 215192175, 215192191,
    215193135, 215193167, 215194047, 215194095, 215194143, 215194159, 215194175, 215194191,
    215195055, 215195119, 215195183, 215196236, 215200015, 215200175, 215200191, 215201103,
    215201135, 215201167, 215201199, 215202111, 215202175, 215202191, 215203055, 215203119,
    215203183, 215204228, 215204244, 215205253, 215206246, 215207212, 215208047, 215208159,
    215208175, 215208191, 215208207, 215209071, 215209135, 215209167, 215209199, 215210095,
    215210175, 215210191, 215210207, 215211055, 215211119, 215211183, 215212220, 215212252,
    215214238, 215216096, 215216176, 215216192, 215216208, 215217137, 215217169, 215217201,
    215218098, 215218146, 215218178, 215218194, 215218210, 215219059, 215219123, 215219187,
    215220223, 215220239, 215220255, 215221077, 215222223, 215222239, 215222255, 215223031,
    215223216, 215223218, 215224008, 215224184, 215224985, 215225177, 215225209, 215226186,
    215226202, 215227195, 215228239, 215228255, 215229231, 215231217, 215231225, 215232192,
    215233153, 215234194, 215234210, 215235139, 215235203, 215236239, 215236255, 215239216,
    215239218, 215239226, 215239232, 215239234, 215240120, 215241193, 215242202, 215243211,
    215244255, 215245101, 215247219, 215247227, 215247235, 215247243, 215248208, 215249169,
    215250050, 215250082, 215250210, 215252255, 215255216, 215255218, 215255232, 215255234,
    216000009, 216000171, 216016021, 216016171, 216024032, 216024176, 216048055, 216048181,
    216056060, 216056180, 216069048, 216072078, 216072186, 216081016, 216084056, 216096099,
    216096101, 216096189, 216096191, 216097048, 216097080, 216097096, 216101096, 216105096,
    216109096, 216112024, 216113096, 216117096, 216120124, 216120140, 216120188, 216120196,
    216120212, 216121096, 216125048, 216125096, 216125112, 216131080, 216131096, 216136138,
    216136198, 216137096, 216138072, 216138136, 216139096, 216139128, 216144201, 216144213,
    216145096, 216146104, 216146136, 216147032, 216147096, 216147144, 216153144, 216154136,
    216155096, 216161128, 216162136, 216163096, 216168206, 216168214, 216169096, 216170136,
    216170168, 216171016, 216171096, 216171144, 216176177, 216176205, 216176207, 216176213,
    216177096, 216177144, 216177176, 216178136, 216178168, 216179096, 216179176, 216183255,
    216185176, 216186136, 216186168, 216187096, 216187176, 216190238, 216192197, 216192215,
    216193176, 216193192, 216194136, 216194168, 216195048, 216195096, 216195144, 216195160,
    216195176, 216195192, 216197237, 216201016, 216201176, 216201192, 216202104, 216202136,
    216202168, 216202200, 216203112, 216203176, 216203192, 216205229, 216205245, 216206254,
    216207247, 216208213, 216209048, 216209160, 216209176, 216209192, 216209208, 216210072,
    216210136, 216210168, 216210200, 216211096, 216211176, 216211192, 216211208, 216213221,
    216213253, 216215239, 216217097, 216217177, 216217193, 216217209, 216218138, 216218170,
    216218202, 216219099, 216219147, 216219179, 216219195, 216219211, 216220060, 216220248,
    216221021, 216221224, 216221240, 216223224, 216223240, 216224032, 216224217, 216224219,
    216225009, 216225185, 216225986, 216226178, 216226210, 216227187, 216227203, 216229240,
    216230232, 216232218, 216232226, 216233193, 216234154, 216235195, 216235211, 216236248,
    216237240, 216240217, 216240219, 216240227, 216240233, 216240235, 216241121, 216242194,
    216243203, 216244248, 216249209, 216250170, 216251051, 216251083, 216251211, 217001010,
    217001172, 217017022, 217017172, 217025033, 217025177, 217046001, 217049056, 217049182,
    217056049, 217057061, 217057181, 217069057, 217073079, 217073187, 217077057, 217084049,
    217085057, 217093057, 217097098, 217097100, 217097102, 217097188, 217097190, 217097192,
    217097212, 217107041, 217109057, 217113025, 217117057, 217121125, 217121141, 217121189,
    217121197, 217121213, 217125057, 217137139, 217137199, 217138097, 217139073, 217139137,
    217145148, 217145196, 217145202, 217145214, 217146097, 217147105, 217147137, 217154145,
    217155137, 217162129, 217163137, 217169207, 217169215, 217170097, 217171137, 217171169,
    217177178, 217177204, 217177206, 217177208, 217177214, 217178097, 217178145, 217178177,
    217179137, 217179169, 217186177, 217187137, 217187169, 217191239, 217193196, 217193198,
    217193212, 217193216, 217194177, 217194193, 217195137, 217195169, 217196220, 217196236,
    217198238, 217202017, 217202177, 217202193, 217203105, 217203137, 217203169, 217203201,
    217204228, 217204244, 217206230, 217206246, 217207255, 217208248, 217209212, 217209214,
    217210049, 217210161, 217210177, 217210193, 217210209, 217211073, 217211137, 217211169,
    217211201, 217212220, 217212236, 217214222, 217214254, 217216240, 217218098, 217218178,
    217218194, 217218210, 217219139, 217219171, 217219203, 217220225, 217220241, 217221249,
    217222022, 217222225, 217222241, 217224225, 217224241, 217225033, 217225218, 217226010,
    217226186, 217226987, 217227179, 217227211, 217228241, 217230241, 217231233, 217233219,
    217233227, 217234194, 217235155, 217236241, 217237249, 217238241, 217241218, 217241234,
    217243195, 217245249, 217250210, 217251171, 218002011, 218002173, 218018023, 218018173,
    218026034, 218026178, 218050057, 218050183, 218058062, 218058182, 218065002, 218074080,
    218074188, 218074212, 218080074, 218083018, 218085050, 218085066, 218092074, 218093018,
    218098099, 218098101, 218098103, 218098189, 218098191, 218098193, 218098213, 218099098,
    218101002, 218101098, 218103098, 218104074, 218105098, 218107098, 218108042, 218109098,
    218111098, 218113098, 218114026, 218116074, 218117098, 218119098, 218120106, 218121098,
    218122126, 218122190, 218122198, 218122214, 218123098, 218125098, 218128074, 218129098,
    218131098, 218137098, 218138090, 218138140, 218138156, 218138172, 218138196, 218138200,
    218138212, 218139098, 218145098, 218146149, 218146197, 218146203, 218146215, 218147098,
    218153098, 218153114, 218155098, 218155146, 218163130, 218170090, 218170172, 218170180,
    218170204, 218170208, 218170216, 218171098, 218172252, 218176074, 218178179, 218178205,
    218178207, 218178209, 218178215, 218179098, 218179114, 218179146, 218179178, 218187178,
    218192240, 218194197, 218194199, 218194213, 218194217, 218195178, 218195194, 218196244,
    218197221, 218197237, 218199239, 218202090, 218202204, 218202212, 218203018, 218203178,
    218203194, 218204220, 218204252, 218205229, 218205245, 218207231, 218207247, 218209249,
    218210213, 218210215, 218211050, 218211162, 218211178, 218211194, 218211210, 218212228,
    218213221, 218213237, 218215223, 218215255, 218217241, 218219099, 218219179, 218219195,
    218219211, 218220234, 218221226, 218221242, 218222250, 218223023, 218223226, 218223242,
    218225226, 218225242, 218226034, 218226219, 218227011, 218227187, 218228234, 218229242,
    218231242, 218232234, 218235195, 218237242, 218238250, 218239242, 218242219, 218242235,
    218246250, 218251211, 219003012, 219003156, 219003174, 219019024, 219019174, 219027035,
    219027179, 219048003, 219051058, 219051184, 219051212, 219058051, 219059063, 219059183,
    219065043, 219075081, 219075189, 219075213, 219081075, 219084019, 219087059, 219089011,
    219093075, 219099100, 219099102, 219099104, 219099188, 219099190, 219099192, 219099194,
    219099214, 219100099, 219104099, 219105075, 219108099, 219109043, 219112099, 219115027,
    219117075, 219120099, 219121107, 219123127, 219123191, 219123199, 219123215, 219124099,
    219129075, 219130099, 219138099, 219139091, 219139141, 219139157, 219139173, 219139197,
    219139201, 219139213, 219146099, 219147027, 219147150, 219147198, 219147204, 219147216,
    219154099, 219154115, 219171091, 219171173, 219171181, 219171205, 219171209, 219171217,
    219173253, 219177075, 219179180, 219179188, 219179196, 219179204, 219179206, 219179208,
    219179210, 219179212, 219179216, 219180252, 219191059, 219193241, 219195196, 219195198,
    219195200, 219195204, 219195212, 219195214, 219195218, 219196220, 219196236, 219197245,
    219198222, 219198238, 219200240, 219203091, 219203205, 219203213, 219204228, 219204244,
    219205221, 219205253, 219206230, 219206246, 219207059, 219208232, 219208248, 219210250,
    219211212, 219211214, 219211216, 219212220, 219212236, 219212252, 219213229, 219214222,
    219214238, 219216224, 219218242, 219220227, 219220243, 219221235, 219222227, 219222243,
    219223251, 219224024, 219224227, 219224243, 219224985, 219226227, 219226243, 219228243,
    219229235, 219230243, 219232243, 219233235, 219236243, 219238243, 219239251, 219240243,
    219247251, 220004013, 220004175, 220020025, 220020175, 220028036, 220028164, 220028180,
    220028212, 220049004, 220052059, 220055020, 220060064, 220060184, 220065020, 220067004,
    220073052, 220074988, 220076082, 220076190, 220076214, 220085004, 220085020, 220087052,
    220088060, 220095020, 220100103, 220100105, 220100189, 220100193, 220101052, 220101084,
    220101100, 220103004, 220105020, 220105036, 220105100, 220109100, 220113100, 220115052,
    220116028, 220117100, 220121100, 220124128, 220125020, 220125068, 220125100, 220128124,
    220129052, 220129100, 220129116, 220130076, 220131100, 220132988, 220135084, 220137100,
    220139004, 220139100, 220140142, 220142140, 220143132, 220144124, 220145020, 220145100,
    220146140, 220147100, 220148205, 220150140, 220151036, 220151148, 220152124, 220153100,
    220154140, 220155020, 220155100, 220155116, 220157148, 220158140, 220160124, 220161100,
    220162140, 220163068, 220163100, 220163148, 220165020, 220165132, 220166140, 220168124,
    220169084, 220169148, 220170140, 220171052, 220171100, 220171164, 220174140, 220174172,
    220175148, 220178076, 220178108, 220178140, 220178172, 220179100, 220180181, 220181148,
    220181180, 220182140, 220182172, 220183180, 220184124, 220185020, 220185052, 220185100,
    220185164, 220185180, 220186140, 220186172, 220187100, 220187132, 220187148, 220187180,
    220189180, 220190140, 220190172, 220191180, 220191996, 220192060, 220192124, 220192188,
    220193004, 220193100, 220193148, 220193180, 220194012, 220194140, 220194172, 220195020,
    220195100, 220195180, 220197036, 220197180, 220197196, 220198140, 220198172, 220199052,
    220199100, 220199148, 220199164, 220199180, 220199196, 220200124, 220200188, 220201068,
    220201100, 220201180, 220201196, 220202140, 220202172, 220203084, 220203100, 220203180,
    220203196, 220205180, 220205196, 220206140, 220206172, 220206204, 220207116, 220207180,
    220207196, 220208060, 220208124, 220208188, 220209100, 220209132, 220209180, 220209196,
    220210140, 220210172, 220210204, 220211004, 220211100, 220211148, 220211180, 220211196,
    220213052, 220213164, 220213180, 220213196, 220213212, 220214140, 220214172, 220214204,
    220215020, 220215100, 220215180, 220215196, 220215212, 220216124, 220216188, 220217100,
    220217148, 220217180, 220217196, 220217212, 220218140, 220218172, 220218204, 220219100,
    220219180, 220219196, 220219212, 220221101, 220221181, 220221197, 220221213, 220222142,
    220222174, 220222206, 220223103, 220223151, 220223183, 220223199, 220223215, 220224064,
    220224128, 220224192, 220225025, 220225105, 220225185, 220225201, 220225217, 220225986,
    220226082, 220226146, 220226178, 220226210, 220227059, 220227107, 220227171, 220227187,
    220227203, 220227219, 220228036, 220228221, 220228223, 220228225, 220228227, 220229013,
    220229189, 220229990, 220230182, 220230214, 220231191, 220231207, 220232200, 220233129,
    220233193, 220233209, 220233994, 220234122, 220234154, 220234186, 220234218, 220235035,
    220235115, 220235163, 220235195, 220235211, 220236222, 220236226, 220236230, 220236234,
    220237197, 220238158, 220239199, 220239215, 220240144, 220240208, 220241121, 220241185,
    220241201, 220241217, 220242162, 220242194, 220243123, 220243203, 220243219, 220244221,
    220244223, 220244225, 220244227, 220244231, 220244233, 220244235, 220244237, 220244239,
    220244241, 220244243, 220245125, 220246198, 220247127, 220247207, 220248088, 220248216,
    220249129, 220249209, 220250106, 220250170, 220250202, 220251131, 220251211, 220252224,
    220252232, 220252240, 220252248, 220253213, 220254174, 220255055, 220255087, 220255215,
    221005014, 221005176, 221021026, 221021176, 221029037, 221029181, 221050005, 221053060,
    221060053, 221061065, 221061185, 221065061, 221073061, 221077083, 221077191, 221077215,
    221081061, 221088053, 221089061, 221097061, 221101102, 221101104, 221101106, 221101190,
    221101194, 221101196, 221111045, 221113061, 221117029, 221121061, 221125129, 221129061,
    221129125, 221130053, 221130101, 221130117, 221131077, 221136085, 221136997, 221137061,
    221138101, 221141143, 221143141, 221144133, 221145061, 221145125, 221146101, 221147141,
    221149206, 221151141, 221152037, 221152149, 221153125, 221154101, 221155045, 221155141,
    221158149, 221159141, 221161061, 221161125, 221162101, 221163141, 221166133, 221167141,
    221169061, 221169125, 221170085, 221170149, 221171141, 221175141, 221175173, 221176021,
    221176149, 221177061, 221179077, 221179109, 221179141, 221179173, 221181182, 221181212,
    221182149, 221182181, 221183141, 221183173, 221184181, 221185061, 221185125, 221186021,
    221186053, 221186101, 221186165, 221186181, 221187141, 221187173, 221190181, 221191141,
    221191173, 221192181, 221192997, 221193061, 221193125, 221193189, 221194005, 221194101,
    221194149, 221194181, 221195013, 221195141, 221195173, 221197220, 221198181, 221198197,
    221199141, 221199173, 221200053, 221200101, 221200149, 221200165, 221200181, 221200197,
    221201061, 221201125, 221201189, 221202069, 221202101, 221202181, 221202197, 221203141,
    221203173, 221206021, 221206181, 221206197, 221207141, 221207173, 221207205, 221208117,
    221208181, 221208197, 221209061, 221209125, 221209189, 221210101, 221210133, 221210181,
    221210197, 221211141, 221211173, 221211205, 221212252, 221214053, 221214165, 221214181,
    221214197, 221214213, 221215141, 221215173, 221215205, 221216101, 221216181, 221216197,
    221216213, 221217061, 221217125, 221217189, 221218101, 221218149, 221218181, 221218197,
    221218213, 221219141, 221219173, 221219205, 221220244, 221222102, 221222182, 221222198,
    221222214, 221223143, 221223175, 221223207, 221224104, 221224152, 221224184, 221224200,
    221224216, 221225065, 221225129, 221225193, 221226026, 221226106, 221226186, 221226202,
    221226218, 221226987, 221227083, 221227147, 221227179, 221227211, 221228229, 221228245,
    221229037, 221229222, 221229224, 221229226, 221230014, 221230190, 221230991, 221231183,
    221231215, 221232192, 221232208, 221233201, 221234130, 221234194, 221234210, 221234995,
    221235123, 221235155, 221235187, 221235219, 221237223, 221237227, 221237231, 221237235,
    221238198, 221239159, 221240200, 221240216, 221241145, 221241209, 221242122, 221242186,
    221242202, 221242218, 221243163, 221243195, 221245222, 221245224, 221245226, 221245232,
    221245234, 221245238, 221245240, 221245242, 221246126, 221247199, 221248128, 221248208,
    221249089, 221249217, 221250130, 221250210, 221251107, 221251171, 221251203, 221253225,
    221253233, 221253241, 221253249, 221254214, 221255175, 222006015, 222006177, 222022027,
    222022177, 222030038, 222030182, 222054061, 222062066, 222062186, 222069006, 222078084,
    222078192, 222084078, 222087022, 222089054, 222089070, 222096078, 222097022, 222102105,
    222102107, 222102197, 222103086, 222103102, 222105006, 222105102, 222107102, 222108078,
    222109102, 222111102, 222112046, 222113102, 222115102, 222117102, 222118030, 222119102,
    222120078, 222121102, 222123102, 222124110, 222125102, 222127102, 222129102, 222130062,
    222130126, 222131054, 222131102, 222131118, 222137086, 222137102, 222137998, 222138062,
    222138126, 222139102, 222142144, 222142204, 222143102, 222144078, 222144142, 222145102,
    222145134, 222146062, 222146126, 222147022, 222147102, 222150207, 222151102, 222152110,
    222152142, 222153038, 222153102, 222153150, 222154126, 222155102, 222159150, 222160142,
    222161102, 222162062, 222162126, 222163102, 222167134, 222168142, 222169102, 222170062,
    222170126, 222171086, 222171102, 222171150, 222174212, 222174220, 222175102, 222176142,
    222176174, 222177022, 222177102, 222177150, 222178062, 222178126, 222179102, 222182183,
    222182213, 222183102, 222183150, 222183182, 222184142, 222184174, 222185102, 222185182,
    222186062, 222186126, 222187022, 222187054, 222187102, 222187166, 222187182, 222191182,
    222192142, 222192174, 222193102, 222193182, 222193998, 222194062, 222194126, 222194190,
    222195006, 222195102, 222195150, 222195182, 222196244, 222198221, 222199182, 222199198,
    222200142, 222200174, 222201054, 222201102, 222201150, 222201166, 222201182, 222201198,
    222202062, 222202126, 222202190, 222203070, 222203102, 222203182, 222203198, 222207022,
    222207182, 222207198, 222208110, 222208142, 222208174, 222208206, 222209118, 222209182,
    222209198, 222210062, 222210126, 222210190, 222211102, 222211134, 222211182, 222211198,
    222213253, 222215054, 222215166, 222215182, 222215198, 222215214, 222216078, 222216142,
    222216174, 222216206, 222217102, 222217182, 222217198, 222217214, 222218062, 222218126,
    222218190, 222219102, 222219150, 222219182, 222219198, 222219214, 222221245, 222223103,
    222223183, 222223199, 222223215, 222224144, 222224176, 222224208, 222225105, 222225153,
    222225185, 222225201, 222225217, 222226066, 222226130, 222226194, 222227027, 222227107,
    222227187, 222227203, 222227219, 222227988, 222228084, 222229230, 222229246, 222230038,
    222230223, 222230225, 222230227, 222231015, 222231191, 222231992, 222232184, 222232216,
    222233193, 222233209, 222234202, 222235131, 222235195, 222235211, 222236238, 222238224,
    222238232, 222239199, 222240160, 222241201, 222241217, 222242146, 222242210, 222243123,
    222243187, 222243203, 222243219, 222246223, 222246225, 222246227, 222246233, 222246235,
    222246239, 222246241, 222246243, 222247127, 222248200, 222249129, 222249209, 222250218,
    222251131, 222251211, 222252108, 222254226, 222254234, 222254242, 222254250, 222255215,
    223007016, 223007178, 223023028, 223023178, 223031039, 223031183, 223052007, 223055062,
    223055188, 223062055, 223063067, 223063187, 223069047, 223076055, 223079085, 223079193,
    223085079, 223088023, 223091063, 223093015, 223097079, 223103106, 223103108, 223103196,
    223103198, 223104055, 223104087, 223104103, 223108103, 223109079, 223112103, 223113047,
    223116103, 223119031, 223120103, 223121079, 223124103, 223125111, 223128103, 223130103,
    223131063, 223131127, 223138087, 223138103, 223138999, 223139063, 223139127, 223143145,
    223143205, 223144103, 223145079, 223145143, 223146103, 223146135, 223147063, 223147127,
    223151208, 223151220, 223152103, 223153111, 223153143, 223154039, 223154103, 223154151,
    223155127, 223160151, 223161143, 223162103, 223163063, 223163127, 223168135, 223169143,
    223170103, 223171063, 223171127, 223175213, 223175221, 223176103, 223177143, 223177175,
    223178023, 223178103, 223178151, 223179063, 223179127, 223183184, 223183212, 223183214,
    223183220, 223184103, 223184151, 223184183, 223185143, 223185175, 223186103, 223186183,
    223187063, 223187127, 223192183, 223193143, 223193175, 223194103, 223194183, 223194999,
    223195063, 223195127, 223195191, 223197245, 223199204, 223199222, 223200183, 223200199,
    223201143, 223201175, 223202055, 223202103, 223202151, 223202167, 223202183, 223202199,
    223203063, 223203127, 223203191, 223204244, 223208023, 223208183, 223208199, 223209111,
    223209143, 223209175, 223209207, 223210119, 223210183, 223210199, 223211063, 223211127,
    223211191, 223212236, 223212252, 223214254, 223215220, 223216055, 223216167, 223216183,
    223216199, 223216215, 223217079, 223217143, 223217175, 223217207, 223218103, 223218183,
    223218199, 223218215, 223219063, 223219127, 223219191, 223220228, 223222246, 223224104,
    223224184, 223224200, 223224216, 223224985, 223225145, 223225177, 223225209, 223226106,
    223226154, 223226186, 223226202, 223226218, 223227067, 223227131, 223227195, 223228231,
    223228247, 223228989, 223229085, 223230231, 223230247, 223231039, 223231224, 223231226,
    223232016, 223232192, 223232993, 223233185, 223233217, 223234194, 223234210, 223235203,
    223236247, 223237239, 223239225, 223239233, 223240200, 223241161, 223242202, 223242218,
    223243147, 223243211, 223244247, 223247224, 223247226, 223247234, 223247240, 223247242,
    223248128, 223249201, 223250130, 223250210, 223251219, 223253109, 223255227, 223255235,
    223255243, 223255251, 224008017, 224008179, 224024029, 224024179, 224032040, 224032184,
    224056063, 224056189, 224064068, 224064188, 224077056, 224080086, 224080194, 224089024,
    224092064, 224104107, 224104109, 224104197, 224104199, 224105056, 224105088, 224105104,
    224109104, 224113104, 224117104, 224120032, 224121104, 224125104, 224128132, 224128148,
    224128196, 224128204, 224128220, 224129104, 224131104, 224139088, 224139104, 224144146,
    224144206, 224145104, 224146080, 224146144, 224147104, 224147136, 224152209, 224152221,
    224153104, 224154112, 224154144, 224155040, 224155104, 224155152, 224161152, 224162144,
    224163104, 224169136, 224170144, 224171104, 224176214, 224176222, 224177104, 224178144,
    224178176, 224179024, 224179104, 224179152, 224184185, 224184213, 224184215, 224184221,
    224185104, 224185152, 224185184, 224186144, 224186176, 224187104, 224187184, 224193184,
    224194144, 224194176, 224195104, 224195184, 224198246, 224200205, 224200223, 224201184,
    224201200, 224202144, 224202176, 224203056, 224203104, 224203152, 224203168, 224203184,
    224203200, 224205245, 224209024, 224209184, 224209200, 224210112, 224210144, 224210176,
    224210208, 224211120, 224211184, 224211200, 224213237, 224213253, 224215255, 224216221,
    224217056, 224217168, 224217184, 224217200, 224217216, 224218080, 224218144, 224218176,
    224218208, 224219104, 224219184, 224219200, 224219216, 224221229, 224223247, 224225105,
    224225185, 224225201, 224225217, 224225986, 224226146, 224226178, 224226210, 224227107,
    224227155, 224227187, 224227203, 224227219, 224228068, 224229029, 224229232, 224229248,
    224229990, 224231232, 224231248, 224232040, 224232225, 224232227, 224233017, 224233193,
    224233994, 224234186, 224234218, 224235195, 224235211, 224237248, 224238240, 224240226,
    224240234, 224241201, 224242162, 224243203, 224243219, 224245248, 224248225, 224248227,
    224248235, 224248241, 224248243, 224249129, 224250202, 224251131, 224251211, 224984987,
    224984991, 224984995, 224985167, 224985171, 224985175, 225009018, 225009180, 225025030,
    225025180, 225026985, 225033041, 225033185, 225054009, 225057064, 225057190, 225064057,
    225065069, 225065189, 225073033, 225081087, 225081195, 225089033, 225092057, 225093065,
    225105106, 225105108, 225105110, 225105132, 225105196, 225105198, 225105200, 225105220,
    225115049, 225121033, 225129133, 225129149, 225129197, 225129205, 225129221, 225130105,
    225130985, 225145147, 225145207, 225146105, 225146985, 225147081, 225147145, 225153156,
    225153204, 225153210, 225153222, 225154105, 225154985, 225155113, 225155145, 225162153,
    225163145, 225170137, 225171145, 225177215, 225177223, 225178105, 225179145, 225179177,
    225185186, 225185212, 225185214, 225185216, 225185222, 225186105, 225186153, 225186185,
    225187145, 225187177, 225194185, 225195145, 225195177, 225199247, 225201204, 225201206,
    225201220, 225201224, 225202185, 225202201, 225202985, 225203145, 225203177, 225204228,
    225204244, 225206246, 225210025, 225210185, 225210201, 225211113, 225211145, 225211177,
    225211209, 225212236, 225212252, 225214238, 225214254, 225217220, 225217222, 225218057,
    225218169, 225218185, 225218201, 225218217, 225219081, 225219145, 225219177, 225219209,
    225220228, 225220244, 225222230, 225224248, 225226106, 225226186, 225226202, 225226218,
    225226987, 225227147, 225227179, 225227211, 225228233, 225228249, 225229069, 225230030,
    225230233, 225230249, 225230991, 225232233, 225232249, 225233041, 225233226, 225234018,
    225234194, 225234995, 225235187, 225235219, 225236249, 225238249, 225239241, 225241227,
    225241235, 225242202, 225243163, 225244249, 225246249, 225249226, 225249242, 225250130,
    225251203, 225985988, 225985992, 225985996, 225986164, 225986168, 225986172, 225986176,
    226010019, 226010181, 226026031, 226026181, 226027986, 226034042, 226034186, 226058065,
    226058191, 226059986, 226065058, 226066070, 226066190, 226067986, 226073010, 226075986,
    226082088, 226082196, 226082220, 226083986, 226088082, 226091026, 226093058, 226093074,
    226094066, 226100082, 226101026, 226106107, 226106109, 226106111, 226106197, 226106199,
    226106201, 226106221, 226107106, 226107986, 226109010, 226109106, 226111106, 226112082,
    226113106, 226115106, 226116050, 226117106, 226119106, 226121106, 226122034, 226124082,
    226125106, 226127106, 226128114, 226129106, 226130134, 226130150, 226130198, 226130206,
    226130222, 226131074, 226131106, 226136082, 226137106, 226139106, 226145106, 226146098,
    226146148, 226146164, 226146180, 226146204, 226146208, 226146220, 226147106, 226153106,
    226154157, 226154205, 226154211, 226154223, 226155106, 226161106, 226161122, 226163106,
    226163154, 226171138, 226178098, 226178180, 226178188, 226178212, 226178216, 226178224,
    226179106, 226184082, 226186187, 226186213, 226186215, 226186217, 226186223, 226187106,
    226187122, 226187154, 226187186, 226195186, 226198066, 226200248, 226202205, 226202207,
    226202221, 226202225, 226203186, 226203202, 226204252, 226205229, 226205245, 226207247,
    226210098, 226210212, 226210220, 226211026, 226211186, 226211202, 226212228, 226213237,
    226213253, 226214066, 226215239, 226215255, 226218221, 226218223, 226219058, 226219170,
    226219186, 226219202, 226219218, 226220236, 226221229, 226221245, 226223231, 226225249,
    226227107, 226227187, 226227203, 226227219, 226227988, 226228242, 226229234, 226229250,
    226231031, 226231234, 226231250, 226231992, 226233234, 226233250, 226234042, 226234227,
    226235019, 226235195, 226236242, 226237250, 226239250, 226240242, 226243203, 226245250,
    226247250, 226250227, 226250243, 226251131, 226986989, 226986993, 226986997, 226987165,
    226987169, 226987173, 226987177, 227011020, 227011164, 227011182, 227027032, 227027182,
    227028987, 227035043, 227056011, 227059066, 227059192, 227059220, 227064987, 227067071,
    227067191, 227068987, 227072987, 227073051, 227076987, 227083089, 227083197, 227083221,
    227084987, 227089083, 227092027, 227095067, 227096987, 227097019, 227101083, 227107108,
    227107110, 227107112, 227107196, 227107198, 227107200, 227107202, 227107222, 227108107,
    227108987, 227112107, 227113083, 227116107, 227117051, 227120107, 227123035, 227125083,
    227128107, 227129115, 227130107, 227131135, 227131151, 227131199, 227131207, 227131223,
    227137083, 227138107, 227146107, 227147099, 227147149, 227147165, 227147181, 227147205,
    227147209, 227147221, 227154107, 227155035, 227155158, 227155206, 227155212, 227155224,
    227162107, 227162123, 227171035, 227179099, 227179181, 227179189, 227179213, 227179217,
    227179225, 227185083, 227187035, 227187188, 227187196, 227187204, 227187212, 227187214,
    227187216, 227187218, 227187220, 227187224, 227199067, 227201249, 227203035, 227203204,
    227203206, 227203208, 227203212, 227203220, 227203222, 227203226, 227204228, 227204244,
    227205253, 227206230, 227206246, 227208248, 227211099, 227211213, 227211221, 227212236,
    227212252, 227213229, 227214238, 227214254, 227215067, 227216240, 227219035, 227219220,
    227219222, 227219224, 227220228, 227220244, 227221237, 227222230, 227222246, 227224232,
    227226250, 227228235, 227228251, 227228989, 227229243, 227230235, 227230251, 227232032,
    227232235, 227232251, 227232993, 227234066, 227234235, 227234251, 227236251, 227237243,
    227238251, 227240251, 227241243, 227244251, 227246251, 227248251, 227987990, 227987994,
    227987998, 227988174, 227988178, 228012021, 228012183, 228028033, 228028183, 228029988,
    228036044, 228036172, 228036188, 228036220, 228057012, 228060067, 228061988, 228063028,
    228068072, 228068192, 228073028, 228075012, 228081060, 228082996, 228084090, 228084198,
    228084222, 228093012, 228093028, 228095060, 228096068, 228103028, 228108111, 228108113,
    228108197, 228108201, 228109060, 228109092, 228109108, 228111012, 228113028, 228113044,
    228113108, 228117108, 228121108, 228123060, 228124036, 228125108, 228129108, 228130116,
    228131108, 228133988, 228136132, 228137060, 228137108, 228137124, 228137988, 228138084,
    228139108, 228140996, 228143092, 228144132, 228145108, 228147012, 228147108, 228148150,
    228149988, 228150148, 228151140, 228152132, 228153028, 228153108, 228153988, 228154148,
    228155108, 228156213, 228158148, 228159044, 228159156, 228160132, 228161108, 228162148,
    228163028, 228163108, 228163124, 228165156, 228166148, 228168132, 228169108, 228169988,
    228170148, 228171076, 228171108, 228171156, 228173028, 228173140, 228174148, 228176132,
    228177092, 228177156, 228178148, 228179060, 228179108, 228179172, 228182148, 228182180,
    228183156, 228184132, 228185988, 228186084, 228186116, 228186148, 228186180, 228187108,
    228188189, 228189156, 228189188, 228190148, 228190180, 228191188, 228192132, 228193028,
    228193060, 228193108, 228193172, 228193188, 228194148, 228194180, 228195108, 228195140,
    228195156, 228195188, 228197188, 228198148, 228198180, 228199188, 228200004, 228200068,
    228200132, 228200196, 228201012, 228201108, 228201156, 228201188, 228202020, 228202148,
    228202180, 228203028, 228203108, 228203188, 228205044, 228205188, 228205204, 228206148,
    228206180, 228207060, 228207108, 228207156, 228207172, 228207188, 228207204, 228208132,
    228208196, 228209076, 228209108, 228209188, 228209204, 228210148, 228210180, 228211092,
    228211108, 228211188, 228211204, 228213188, 228213204, 228214148, 228214180, 228214212,
    228215124, 228215188, 228215204, 228216068, 228216132, 228216196, 228217108, 228217140,
    228217188, 228217204, 228217988, 228218148, 228218180, 228218212, 228219012, 228219108,
    228219156, 228219188, 228219204, 228221060, 228221172, 228221188, 228221204, 228221220,
    228222148, 228222180, 228222212, 228223028, 228223108, 228223188, 228223204, 228223220,
    228224132, 228224196, 228225108, 228225156, 228225188, 228225204, 228225220, 228226148,
    228226180, 228226212, 228227108, 228227188, 228227204, 228227220, 228229109, 228229189,
    228229205, 228229221, 228229990, 228230150, 228230182, 228230214, 228231111, 228231159,
    228231191, 228231207, 228231223, 228232072, 228232136, 228232200, 228233033, 228233113,
    228233193, 228233209, 228233225, 228233994, 228234090, 228234154, 228234186, 228234218,
    228235067, 228235115, 228235179, 228235195, 228235211, 228235227, 228236044, 228236229,
    228236231, 228236233, 228236235, 228237021, 228237197, 228237998, 228238190, 228238222,
    228239199, 228239215, 228240208, 228241137, 228241201, 228241217, 228242002, 228242130,
    228242162, 228242194, 228242226, 228243043, 228243123, 228243171, 228243203, 228243219,
    228244230, 228244234, 228244238, 228244242, 228245205, 228246166, 228247207, 228247223,
    228248152, 228248216, 228249129, 228249193, 228249209, 228249225, 228250170, 228250202,
    228251131, 228251211, 228251227, 228252229, 228252231, 228252233, 228252235, 228252239,
    228252241, 228252243, 228252245, 228252247, 228252249, 228252251, 228253133, 228254206,
    228255135, 228255215, 228988991, 228988995, 228988999, 228989175, 228989179, 229013022,
    229013184, 229029034, 229029184, 229030989, 229037045, 229037189, 229058013, 229061068,
    229068061, 229069073, 229069193, 229077037, 229085091, 229085199, 229085223, 229093037,
    229096061, 229097069, 229109110, 229109112, 229109114, 229109198, 229109202, 229109204,
    229119053, 229125037, 229130109, 229130989, 229131117, 229134989, 229137133, 229138061,
    229138109, 229138125, 229138989, 229139085, 229144093, 229145005, 229145133, 229146109,
    229146989, 229149151, 229150989, 229151149, 229152141, 229153133, 229154109, 229154989,
    229155149, 229157214, 229158989, 229159149, 229160045, 229160157, 229161133, 229162109,
    229162989, 229163053, 229163149, 229166157, 229167149, 229169133, 229170109, 229170989,
    229171149, 229174141, 229175149, 229177133, 229178093, 229178157, 229179149, 229183149,
    229183181, 229184029, 229184157, 229185133, 229186989, 229187085, 229187117, 229187149,
    229187181, 229189190, 229189220, 229190157, 229190189, 229191149, 229191181, 229192189,
    229193133, 229194029, 229194061, 229194109, 229194173, 229194189, 229195149, 229195181,
    229198189, 229199149, 229199181, 229200189, 229201005, 229201069, 229201133, 229201197,
    229202013, 229202109, 229202157, 229202189, 229203021, 229203149, 229203181, 229205228,
    229206189, 229206205, 229206989, 229207149, 229207181, 229208061, 229208109, 229208157,
    229208173, 229208189, 229208205, 229209133, 229209197, 229210077, 229210109, 229210189,
    229210205, 229210989, 229211149, 229211181, 229214029, 229214189, 229214205, 229215149,
    229215181, 229215213, 229216125, 229216189, 229216205, 229217069, 229217133, 229217197,
    229218109, 229218141, 229218189, 229218205, 229218989, 229219149, 229219181, 229219213,
    229222061, 229222173, 229222189, 229222205, 229222221, 229223149, 229223181, 229223213,
    229224109, 229224189, 229224205, 229224221, 229225133, 229225197, 229226109, 229226157,
    229226189, 229226205, 229226221, 229227149, 229227181, 229227213, 229228252, 229230110,
    229230190, 229230206, 229230222, 229230991, 229231151, 229231183, 229231215, 229232112,
    229232160, 229232192, 229232208, 229232224, 229233073, 229233137, 229233201, 229234034,
    229234114, 229234194, 229234210, 229234226, 229234995, 229235091, 229235155, 229235187,
    229235219, 229236237, 229236253, 229237045, 229237230, 229237232, 229237234, 229238022,
    229238198, 229238999, 229239191, 229239223, 229240200, 229240216, 229241209, 229242138,
    229242202, 229242218, 229243003, 229243131, 229243163, 229243195, 229243227, 229245231,
    229245235, 229245239, 229245243, 229246206, 229247167, 229248208, 229248224, 229249153,
    229249217, 229250130, 229250194, 229250210, 229250226, 229251171, 229251203, 229253230,
    229253232, 229253234, 229253240, 229253242, 229253246, 229253248, 229253250, 229254134,
    229255207, 229989992, 229989996, 229990000, 229990172, 229990176, 229990180, 230014023,
    230014185, 230030035, 230030185, 230031990, 230038046, 230038190, 230062069, 230063990,
    230065030, 230069062, 230070074, 230070194, 230071990, 230077014, 230079990, 230086092,
    230086200, 230087990, 230092086, 230095030, 230097062, 230097078, 230098070, 230104086,
    230105030, 230110113, 230110115, 230110205, 230111094, 230111110, 230111990, 230113014,
    230113110, 230115110, 230116086, 230117110, 230119110, 230120054, 230121110, 230123110,
    230125110, 230126038, 230127110, 230128086, 230129110, 230130070, 230131110, 230135110,
    230135990, 230137110, 230138070, 230138134, 230139062, 230139110, 230139126, 230145094,
    230145110, 230146006, 230146070, 230146134, 230147110, 230150152, 230150212, 230151110,
    230151990, 230152086, 230152150, 230153110, 230153142, 230154070, 230154134, 230155030,
    230155110, 230158215, 230159110, 230159990, 230160118, 230160150, 230161046, 230161110,
    230161158, 230162134, 230163110, 230167158, 230168150, 230169110, 230170070, 230170134,
    230171110, 230175142, 230176150, 230177110, 230178070, 230178134, 230179094, 230179110,
    230179158, 230182220, 230182228, 230183110, 230184150, 230184182, 230185030, 230185110,
    230185158, 230186070, 230186134, 230187110, 230190191, 230190221, 230191110, 230191158,
    230191190, 230192150, 230192182, 230193110, 230193190, 230194070, 230194134, 230195030,
    230195062, 230195110, 230195174, 230195190, 230199190, 230200150, 230200182, 230201110,
    230201190, 230202006, 230202070, 230202134, 230202198, 230203014, 230203110, 230203158,
    230203190, 230204252, 230206229, 230207190, 230207206, 230207990, 230208150, 230208182,
    230209062, 230209110, 230209158, 230209174, 230209190, 230209206, 230210070, 230210134,
    230210198, 230211078, 230211110, 230211190, 230211206, 230215030, 230215190, 230215206,
    230216118, 230216150, 230216182, 230216214, 230217126, 230217190, 230217206, 230218070,
    230218134, 230218198, 230219110, 230219142, 230219190, 230219206, 230223062, 230223174,
    230223190, 230223206, 230223222, 230224086, 230224150, 230224182, 230224214, 230225110,
    230225190, 230225206, 230225222, 230226070, 230226134, 230226198, 230227110, 230227158,
    230227190, 230227206, 230227222, 230229253, 230231111, 230231191, 230231207, 230231223,
    230231992, 230232152, 230232184, 230232216, 230233113, 230233161, 230233193, 230233209,
    230233225, 230234074, 230234138, 230234202, 230235035, 230235115, 230235195, 230235211,
    230235227, 230235996, 230236092, 230237238, 230237254, 230238046, 230238231, 230238233,
    230238235, 230239023, 230239199, 230240000, 230240192, 230240224, 230241201, 230241217,
    230242210, 230243139, 230243203, 230243219, 230244246, 230246232, 230246240, 230247207,
    230248168, 230249209, 230249225, 230250154, 230250218, 230251131, 230251195, 230251211,
    230251227, 230254231, 230254233, 230254235, 230254241, 230254243, 230254247, 230254249,
    230254251, 230255135, 230990993, 230990997, 230991001, 230991173, 230991177, 230991181,
    231015024, 231015186, 231031036, 231031186, 231039047, 231039191, 231060015, 231063070,
    231063196, 231064991, 231068991, 231071075, 231071195, 231072991, 231076991, 231077055,
    231080991, 231084063, 231087093, 231087201, 231088991, 231093087, 231096031, 231099071,
    231100991, 231101023, 231105087, 231111114, 231111116, 231111204, 231111206, 231112063,
    231112095, 231112111, 231112991, 231116111, 231117087, 231120111, 231121055, 231124111,
    231127039, 231128111, 231129087, 231130111, 231131071, 231136111, 231136991, 231138111,
    231139071, 231139135, 231146095, 231146111, 231147007, 231147071, 231147135, 231151153,
    231151213, 231152111, 231152991, 231153087, 231153151, 231154111, 231154143, 231155071,
    231155135, 231159216, 231159228, 231160111, 231160991, 231161119, 231161151, 231162047,
    231162111, 231162159, 231163135, 231168159, 231169151, 231170111, 231171071, 231171135,
    231176143, 231177151, 231178111, 231179071, 231179135, 231183221, 231183229, 231184111,
    231185151, 231185183, 231186031, 231186111, 231186159, 231187071, 231187135, 231191192,
    231191220, 231191222, 231191228, 231192111, 231192159, 231192191, 231193151, 231193183,
    231194111, 231194191, 231195071, 231195135, 231200191, 231201151, 231201183, 231202111,
    231202191, 231203007, 231203071, 231203135, 231203199, 231205253, 231207212, 231207230,
    231208191, 231208207, 231208991, 231209151, 231209183, 231210063, 231210111, 231210159,
    231210175, 231210191, 231210207, 231211071, 231211135, 231211199, 231212252, 231216031,
    231216191, 231216207, 231217119, 231217151, 231217183, 231217215, 231218127, 231218191,
    231218207, 231219071, 231219135, 231219199, 231220244, 231223228, 231224063, 231224175,
    231224191, 231224207, 231224223, 231225087, 231225151, 231225183, 231225215, 231226111,
    231226191, 231226207, 231226223, 231227071, 231227135, 231227199, 231228236, 231230254,
    231232112, 231232192, 231232208, 231232224, 231232993, 231233153, 231233185, 231233217,
    231234114, 231234162, 231234194, 231234210, 231234226, 231235075, 231235139, 231235203,
    231236239, 231236255, 231236997, 231237093, 231238239, 231238255, 231239047, 231239232,
    231239234, 231240024, 231240200, 231241001, 231241193, 231241225, 231242202, 231242218,
    231243211, 231244255, 231245247, 231247233, 231247241, 231248208, 231249169, 231250210,
    231250226, 231251155, 231251219, 231252255, 231255232, 231255234, 231255242, 231255248,
    231255250, 231991994, 231991998, 231992002, 231992174, 231992178, 231992182, 232016025,
    232016187, 232032037, 232032187, 232033992, 232040048, 232040192, 232064071, 232064197,
    232072076, 232072196, 232085064, 232088094, 232088202, 232097032, 232100072, 232112115,
    232112117, 232112205, 232112207, 232113064, 232113096, 232113112, 232117112, 232121112,
    232125112, 232128040, 232129112, 232130088, 232131112, 232136140, 232136156, 232136204,
    232136212, 232136228, 232137112, 232137992, 232139112, 232147096, 232147112, 232152154,
    232152214, 232153112, 232153992, 232154088, 232154152, 232155112, 232155144, 232160217,
    232160229, 232161112, 232161992, 232162120, 232162152, 232163048, 232163112, 232163160,
    232169160, 232170152, 232171112, 232177144, 232178152, 232179112, 232184222, 232184230,
    232185112, 232186152, 232186184, 232187032, 232187112, 232187160, 232192193, 232192221,
    232192223, 232192229, 232193112, 232193160, 232193192, 232194152, 232194184, 232195112,
    232195192, 232201192, 232202152, 232202184, 232203112, 232203192, 232206254, 232208213,
    232208231, 232209192, 232209208, 232209992, 232210152, 232210184, 232211064, 232211112,
    232211160, 232211176, 232211192, 232211208, 232213253, 232217032, 232217192, 232217208,
    232218120, 232218152, 232218184, 232218216, 232219128, 232219192, 232219208, 232221245,
    232224229, 232225064, 232225176, 232225192, 232225208, 232225224, 232226088, 232226152,
    232226184, 232226216, 232227112, 232227192, 232227208, 232227224, 232229237, 232231255,
    232233113, 232233193, 232233209, 232233225, 232233994, 232234154, 232234186, 232234218,
    232235115, 232235163, 232235195, 232235211, 232235227, 232236076, 232237037, 232237240,
    232237998, 232239240, 232240048, 232240233, 232240235, 232241025, 232241201, 232242002,
    232242194, 232242226, 232243203, 232243219, 232246248, 232248234, 232248242, 232249209,
    232250170, 232251211, 232251227, 232992995, 232992999, 232993003, 232993175, 232993179,
    232993183, 233017026, 233017188, 233033038, 233033188, 233038033, 233041049, 233041193,
    233048033, 233062017, 233065041, 233065072, 233065198, 233068033, 233073077, 233073197,
    233081041, 233089095, 233089203, 233097041, 233098033, 233101073, 233108033, 233113114,
    233113116, 233113118, 233113140, 233113204, 233113206, 233113208, 233113228, 233123057,
    233129041, 233130113, 233131089, 233137141, 233137157, 233137205, 233137213, 233137229,
    233138113, 233138993, 233153155, 233153215, 233154113, 233154993, 233155089, 233155153,
    233161164, 233161212, 233161218, 233161230, 233162113, 233162993, 233163121, 233163153,
    233170161, 233171153, 233178145, 233179153, 233185223, 233185231, 233186113, 233187153,
    233187185, 233193194, 233193220, 233193222, 233193224, 233193230, 233194113, 233194161,
    233194193, 233195153, 233195185, 233202193, 233203153, 233203185, 233207255, 233209212,
    233209214, 233209228, 233209232, 233210193, 233210209, 233210993, 233211153, 233211185,
    233212236, 233212252, 233214254, 233218033, 233218193, 233218209, 233219121, 233219153,
    233219185, 233219217, 233220244, 233222246, 233225228, 233225230, 233226065, 233226177,
    233226193, 233226209, 233226225, 233227089, 233227153, 233227185, 233227217, 233228236,
    233228252, 233230238, 233234114, 233234194, 233234210, 233234226, 233234995, 233235155,
    233235187, 233235219, 233236241, 233237077, 233238038, 233238241, 233238999, 233240241,
    233241049, 233241234, 233242026, 233242202, 233243003, 233243195, 233243227, 233247249,
    233249235, 233249243, 233250210, 233251171, 233993996, 233994000, 233994004, 233994172,
    233994176, 233994180, 233994184, 234018027, 234018189, 234034039, 234034189, 234035994,
    234042050, 234042194, 234066073, 234066199, 234066227, 234067994, 234069034, 234073066,
    234074078, 234074198, 234075994, 234081018, 234083994, 234090096, 234090204, 234090228,
    234091994, 234096090, 234099034, 234101066, 234101082, 234102074, 234108090, 234109034,
    234114115, 234114117, 234114119, 234114205, 234114207, 234114209, 234114229, 234115114,
    234115994, 234117018, 234117114, 234119114, 234120090, 234121114, 234123114, 234124058,
    234125114, 234127114, 234129114, 234130042, 234131114, 234135114, 234136122, 234137114,
    234138142, 234138158, 234138206, 234138214, 234138230, 234139082, 234139114, 234144090,
    234145114, 234147114, 234153114, 234154106, 234154156, 234154172, 234154188, 234154212,
    234154216, 234154228, 234155114, 234161114, 234162165, 234162213, 234162219, 234162231,
    234163114, 234169114, 234171114, 234171162, 234179146, 234186106, 234186188, 234186196,
    234186220, 234186224, 234186232, 234187114, 234192090, 234194195, 234194221, 234194223,
    234194225, 234194231, 234195114, 234195162, 234195194, 234203194, 234206074, 234210213,
    234210215, 234210229, 234210233, 234211194, 234211210, 234213237, 234213253, 234215255,
    234218106, 234218220, 234218228, 234219034, 234219194, 234219210, 234220236, 234221245,
    234222074, 234223247, 234226229, 234226231, 234227178, 234227194, 234227210, 234227226,
    234228244, 234229237, 234229253, 234231239, 234235115, 234235195, 234235211, 234235227,
    234235996, 234236250, 234237242, 234239039, 234239242, 234240000, 234241242, 234242050,
    234242235, 234243027, 234243203, 234244250, 234248250, 234251211, 234994997, 234995001,
    234995005, 234995173, 234995177, 234995181, 234995185, 235019028, 235019172, 235019190,
    235035040, 235035190, 235035220, 235040035, 235043051, 235064019, 235064995, 235067074,
    235067200, 235067228, 235068995, 235072995, 235075079, 235075199, 235076995, 235080995,
    235081059, 235084995, 235091097, 235091205, 235091229, 235092995, 235097091, 235103075,
    235104995, 235105027, 235109091, 235115116, 235115118, 235115120, 235115204, 235115206,
    235115208, 235115210, 235115230, 235116115, 235116995, 235120115, 235121091, 235124115,
    235125059, 235128115, 235130115, 235131043, 235136115, 235137123, 235138115, 235139143,
    235139159, 235139207, 235139215, 235139231, 235145091, 235146115, 235154115, 235155107,
    235155157, 235155173, 235155189, 235155213, 235155217, 235155229, 235162115, 235163043,
    235163166, 235163214, 235163220, 235163232, 235170035, 235170115, 235179043, 235187107,
    235187189, 235187197, 235187221, 235187225, 235187233, 235193091, 235195043, 235195196,
    235195204, 235195212, 235195220, 235195222, 235195224, 235195226, 235195228, 235195232,
    235207075, 235211043, 235211212, 235211214, 235211216, 235211220, 235211228, 235211230,
    235211234, 235212236, 235212252, 235214238, 235214254, 235219107, 235219221, 235219229,
    235220244, 235221237, 235222246, 235223075, 235224248, 235227043, 235227228, 235227230,
    235227232, 235228236, 235228252, 235229245, 235230238, 235230254, 235232240, 235236243,
    235236997, 235237251, 235238243, 235240040, 235240243, 235241001, 235242074, 235242243,
    235245251, 235249251, 235995998, 235996002, 235996006, 235996182, 235996186, 236020029,
    236020191, 236036041, 236036191, 236037996, 236044052, 236044180, 236044196, 236044228,
    236065020, 236068075, 236071036, 236076080, 236076200, 236080988, 236081036, 236083020,
    236089068, 236091004, 236092098, 236092206, 236092230, 236101020, 236101036, 236103068,
    236104076, 236111036, 236116119, 236116121, 236116205, 236116209, 236117068, 236117100,
    236117116, 236119020, 236121036, 236121052, 236121116, 236125116, 236129116, 236129996,
    236131036, 236131068, 236131116, 236137116, 236138124, 236139116, 236141996, 236144140,
    236145068, 236145116, 236145132, 236145996, 236146092, 236147116, 236149004, 236151100,
    236152140, 236153116, 236155020, 236155116, 236156158, 236157996, 236158156, 236159148,
    236160140, 236161036, 236161116, 236161996, 236162156, 236163116, 236164221, 236166156,
    236167052, 236167164, 236168140, 236169116, 236170156, 236171036, 236171116, 236171132,
    236173164, 236174156, 236176140, 236177116, 236177996, 236178156, 236179084, 236179116,
    236179164, 236181036, 236181148, 236182156, 236184140, 236185100, 236185164, 236186156,
    236187068, 236187116, 236187180, 236190156, 236190188, 236191164, 236192140, 236193996,
    236194092, 236194124, 236194156, 236194188, 236195116, 236196197, 236197164, 236197196,
    236198156, 236198188, 236199196, 236200140, 236201036, 236201068, 236201116, 236201180,
    236201196, 236202156, 236202188, 236203116, 236203148, 236203164, 236203196, 236205196,
    236206156, 236206188, 236207196, 236208012, 236208076, 236208140, 236208204, 236209020,
    236209116, 236209164, 236209196, 236210028, 236210156, 236210188, 236211036, 236211116,
    236211196, 236213052, 236213196, 236213212, 236214156, 236214188, 236215068, 236215116,
    236215164, 236215180, 236215196, 236215212, 236216140, 236216204, 236217084, 236217116,
    236217196, 236217212, 236218156, 236218188, 236219100, 236219116, 236219196, 236219212,
    236221196, 236221212, 236222156, 236222188, 236222220, 236223132, 236223196, 236223212,
    236224076, 236224140, 236224204, 236225116, 236225148, 236225196, 236225212, 236225996,
    236226156, 236226188, 236226220, 236227020, 236227116, 236227164, 236227196, 236227212,
    236229068, 236229180, 236229196, 236229212, 236229228, 236230156, 236230188, 236230220,
    236231036, 236231116, 236231196, 236231212, 236231228, 236232140, 236232204, 236233116,
    236233164, 236233196, 236233212, 236233228, 236234156, 236234188, 236234220, 236235116,
    236235196, 236235212, 236235228, 236237117, 236237197, 236237213, 236237229, 236237998,
    236238158, 236238190, 236238222, 236239119, 236239167, 236239199, 236239215, 236239231,
    236240080, 236240144, 236240208, 236241041, 236241121, 236241201, 236241217, 236241233,
    236242002, 236242098, 236242162, 236242194, 236242226, 236243075, 236243123, 236243187,
    236243203, 236243219, 236243235, 236244052, 236244237, 236244239, 236244241, 236244243,
    236245029, 236245205, 236246006, 236246198, 236246230, 236247207, 236247223, 236248216,
    236249145, 236249209, 236249225, 236250010, 236250138, 236250170, 236250202, 236250234,
    236251051, 236251131, 236251179, 236251211, 236251227, 236252238, 236252242, 236252246,
    236252250, 236253213, 236254174, 236255215, 236255231, 236996999, 236997003, 236997007,
    236997183, 236997187, 237021030, 237021192, 237037042, 237037192, 237042037, 237045053,
    237045197, 237052037, 237069045, 237069076, 237072037, 237077081, 237077201, 237085045,
    237093099, 237093207, 237093231, 237101045, 237102037, 237104069, 237105077, 237112037,
    237117118, 237117120, 237117122, 237117206, 237117210, 237117212, 237127061, 237130117,
    237130997, 237133045, 237138117, 237138997, 237139125, 237142997, 237145141, 237146069,
    237146117, 237146133, 237146997, 237147093, 237152101, 237153013, 237153141, 237154117,
    237154997, 237157159, 237158997, 237159157, 237160149, 237161141, 237162037, 237162117,
    237162997, 237163157, 237165222, 237166997, 237167157, 237168053, 237168165, 237169141,
    237170117, 237170997, 237171061, 237171157, 237174165, 237175157, 237177141, 237178117,
    237178997, 237179157, 237182149, 237183157, 237185141, 237186101, 237186165, 237187157,
    237191157, 237191189, 237192037, 237192165, 237193141, 237194997, 237195093, 237195125,
    237195157, 237195189, 237197198, 237197228, 237198165, 237198197, 237199157, 237199189,
    237200197, 237201141, 237202037, 237202069, 237202117, 237202181, 237202197, 237203157,
    237203189, 237206197, 237207157, 237207189, 237208197, 237209013, 237209077, 237209141,
    237209205, 237210021, 237210117, 237210165, 237210197, 237211029, 237211157, 237211189,
    237213236, 237214197, 237214213, 237214997, 237215157, 237215189, 237216069, 237216117,
    237216165, 237216181, 237216197, 237216213, 237217141, 237217205, 237218085, 237218117,
    237218197, 237218213, 237218997, 237219157, 237219189, 237222037, 237222197, 237222213,
    237223157, 237223189, 237223221, 237224133, 237224197, 237224213, 237225077, 237225141,
    237225205, 237226117, 237226149, 237226197, 237226213, 237226997, 237227157, 237227189,
    237227221, 237230069, 237230181, 237230197, 237230213, 237230229, 237231157, 237231189,
    237231221, 237232117, 237232197, 237232213, 237232229, 237233141, 237233205, 237234117,
    237234165, 237234197, 237234213, 237234229, 237235157, 237235189, 237235221, 237238118,
    237238198, 237238214, 237238230, 237238999, 237239159, 237239191, 237239223, 237240120,
    237240168, 237240200, 237240216, 237240232, 237241081, 237241145, 237241209, 237242042,
    237242122, 237242202, 237242218, 237242234, 237243003, 237243099, 237243163, 237243195,
    237243227, 237244245, 237245053, 237245238, 237245240, 237245242, 237246030, 237246206,
    237247007, 237247199, 237247231, 237248208, 237248224, 237249217, 237250146, 237250210,
    237250226, 237251011, 237251139, 237251171, 237251203, 237251235, 237253239, 237253243,
    237253247, 237253251, 237254214, 237255175, 237998000, 237998004, 237998008, 237998180,
    237998184, 237998188, 238022031, 238022193, 238038043, 238038193, 238039998, 238046054,
    238046198, 238070077, 238071998, 238073038, 238077070, 238078082, 238078202, 238079998,
    238085022, 238087998, 238091070, 238094100, 238094208, 238095998, 238100094, 238103038,
    238105070, 238105086, 238106078, 238112094, 238113038, 238118121, 238118123, 238118213,
    238119070, 238119102, 238119118, 238119998, 238121022, 238121118, 238123118, 238124094,
    238125118, 238127118, 238128062, 238129118, 238130078, 238131118, 238134046, 238135118,
    238136094, 238137118, 238138078, 238139118, 238143118, 238143998, 238145118, 238146078,
    238146142, 238147070, 238147118, 238147134, 238153102, 238153118, 238154014, 238154078,
    238154142, 238155118, 238158160, 238158220, 238159118, 238159998, 238160094, 238160158,
    238161118, 238161150, 238162078, 238162142, 238163038, 238163118, 238166223, 238167118,
    238167998, 238168126, 238168158, 238169054, 238169118, 238169166, 238170142, 238171118,
    238175166, 238176158, 238177118, 238178078, 238178142, 238179118, 238183150, 238184158,
    238185118, 238186078, 238186142, 238187102, 238187118, 238187166, 238190228, 238190236,
    238191118, 238192158, 238192190, 238193038, 238193118, 238193166, 238194078, 238194142,
    238195118, 238198199, 238198229, 238199118, 238199166, 238199198, 238200158, 238200190,
    238201118, 238201198, 238202078, 238202142, 238203038, 238203070, 238203118, 238203182,
    238203198, 238207198, 238208158, 238208190, 238209118, 238209198, 238210014, 238210078,
    238210142, 238210206, 238211022, 238211118, 238211166, 238211198, 238214237, 238215198,
    238215214, 238215998, 238216158, 238216190, 238217070, 238217118, 238217166, 238217182,
    238217198, 238217214, 238218078, 238218142, 238218206, 238219086, 238219118, 238219198,
    238219214, 238223038, 238223198, 238223214, 238224126, 238224158, 238224190, 238224222,
    238225134, 238225198, 238225214, 238226078, 238226142, 238226206, 238227118, 238227150,
    238227198, 238227214, 238231070, 238231182, 238231198, 238231214, 238231230, 238232094,
    238232158, 238232190, 238232222, 238233118, 238233198, 238233214, 238233230, 238234078,
    238234142, 238234206, 238235118, 238235166, 238235198, 238235214, 238235230, 238239119,
    238239199, 238239215, 238239231, 238240000, 238240160, 238240192, 238240224, 238241121,
    238241169, 238241201, 238241217, 238241233, 238242082, 238242146, 238242210, 238243043,
    238243123, 238243203, 238243219, 238243235, 238244004, 238244100, 238245246, 238246054,
    238246239, 238246241, 238246243, 238247031, 238247207, 238248008, 238248200, 238248232,
    238248985, 238249209, 238249225, 238250218, 238251147, 238251211, 238251227, 238252254,
    238254240, 238254248, 238255215, 238999001, 238999005, 238999009, 238999181, 238999185,
    238999189, 239023032, 239023194, 239039044, 239039194, 239044039, 239047055, 239047199,
    239054039, 239068023, 239068999, 239071078, 239071204, 239072999, 239076999, 239079083,
    239079203, 239080999, 239084999, 239085063, 239088999, 239092071, 239095101, 239095209,
    239096999, 239101095, 239104039, 239107079, 239108999, 239109031, 239113095, 239119122,
    239119124, 239119212, 239119214, 239120071, 239120103, 239120119, 239120999, 239124119,
    239125095, 239128119, 239129063, 239130119, 239131079, 239135047, 239136119, 239137095,
    239138119, 239139079, 239144119, 239144999, 239146119, 239147079, 239147143, 239154103,
    239154119, 239155015, 239155079, 239155143, 239159161, 239159221, 239160119, 239160999,
    239161095, 239161159, 239162119, 239162151, 239163079, 239163143, 239167224, 239167236,
    239168119, 239168999, 239169127, 239169159, 239170055, 239170119, 239170167, 239171143,
    239176167, 239177159, 239178119, 239179079, 239179143, 239184151, 239185159, 239186119,
    239187079, 239187143, 239191229, 239191237, 239192119, 239193159, 239193191, 239194039,
    239194119, 239194167, 239195079, 239195143, 239199200, 239199228, 239199230, 239199236,
    239200119, 239200167, 239200199, 239201159, 239201191, 239202119, 239202199, 239203079,
    239203143, 239208199, 239209159, 239209191, 239210119, 239210199, 239211015, 239211079,
    239211143, 239211207, 239215220, 239215238, 239216199, 239216215, 239216999, 239217159,
    239217191, 239218071, 239218119, 239218167, 239218183, 239218199, 239218215, 239219079,
    239219143, 239219207, 239224039, 239224199, 239224215, 239225127, 239225159, 239225191,
    239225223, 239226135, 239226199, 239226215, 239227079, 239227143, 239227207, 239228252,
    239231236, 239232071, 239232183, 239232199, 239232215, 239232231, 239233095, 239233159,
    239233191, 239233223, 239234119, 239234199, 239234215, 239234231, 239235079, 239235143,
    239235207, 239236244, 239240120, 239240200, 239240216, 239240232, 239241001, 239241161,
    239241193, 239241225, 239242122, 239242170, 239242202, 239242218, 239242234, 239243083,
    239243147, 239243211, 239244247, 239245005, 239245101, 239246247, 239247055, 239247240,
    239247242, 239248032, 239248208, 239249009, 239249201, 239249233, 239249986, 239250210,
    239250226, 239251219, 239253255, 239255241, 239255249, 240000002, 240000006, 240000010,
    240000182, 240000186, 240000190, 240024033, 240024195, 240040045, 240040195, 240042000,
    240048056, 240048200, 240069024, 240072079, 240072205, 240080084, 240080204, 240093072,
    240096102, 240096210, 240105040, 240108080, 240120123, 240120125, 240120213, 240120215,
    240121072, 240121104, 240121120, 240125120, 240129120, 240130064, 240131120, 240136048,
    240137120, 240138096, 240139120, 240144148, 240144164, 240144212, 240144220, 240144236,
    240145120, 240146000, 240147120, 240155104, 240155120, 240160162, 240160222, 240161120,
    240162000, 240162096, 240162160, 240163120, 240163152, 240168225, 240168237, 240169120,
    240170000, 240170128, 240170160, 240171056, 240171120, 240171168, 240177168, 240178160,
    240179120, 240185152, 240186160, 240187120, 240192230, 240192238, 240193120, 240194160,
    240194192, 240195040, 240195120, 240195168, 240200201, 240200229, 240200231, 240200237,
    240201120, 240201168, 240201200, 240202160, 240202192, 240203120, 240203200, 240209200,
    240210160, 240210192, 240211120, 240211200, 240216221, 240216239, 240217200, 240217216,
    240218000, 240218160, 240218192, 240219072, 240219120, 240219168, 240219184, 240219200,
    240219216, 240225040, 240225200, 240225216, 240226128, 240226160, 240226192, 240226224,
    240227136, 240227200, 240227216, 240229253, 240232237, 240233072, 240233184, 240233200,
    240233216, 240233232, 240234096, 240234160, 240234192, 240234224, 240235120, 240235200,
    240235216, 240235232, 240237245, 240241121, 240241201, 240241217, 240241233, 240242002,
    240242162, 240242194, 240242226, 240243123, 240243171, 240243203, 240243219, 240243235,
    240244084, 240245045, 240245248, 240246006, 240247248, 240248056, 240248241, 240248243,
    240249033, 240249209, 240250010, 240250202, 240250234, 240250987, 240251211, 240251227,
    241001003, 241001007, 241001011, 241001183, 241001187, 241001191, 241025034, 241025196,
    241041046, 241041196, 241046041, 241049057, 241049201, 241056041, 241073049, 241073080,
    241073206, 241076041, 241081085, 241081205, 241089049, 241097103, 241097211, 241105049,
    241106041, 241109081, 241116041, 241121122, 241121124, 241121126, 241121148, 241121212,
    241121214, 241121216, 241121236, 241130121, 241131065, 241137049, 241138121, 241139097,
    241145149, 241145165, 241145213, 241145221, 241145237, 241146121, 241147001, 241161163,
    241161223, 241162121, 241163001, 241163097, 241163161, 241169172, 241169220, 241169226,
    241169238, 241170121, 241171001, 241171129, 241171161, 241178169, 241179161, 241186153,
    241187161, 241193231, 241193239, 241194121, 241195161, 241195193, 241201202, 241201228,
    241201230, 241201232, 241201238, 241202121, 241202169, 241202201, 241203161, 241203193,
    241210201, 241211161, 241211193, 241217220, 241217222, 241217236, 241217240, 241218201,
    241218217, 241219001, 241219161, 241219193, 241220244, 241226041, 241226201, 241226217,
    241227129, 241227161, 241227193, 241227225, 241228252, 241230254, 241233236, 241233238,
    241234073, 241234185, 241234201, 241234217, 241234233, 241235097, 241235161, 241235193,
    241235225, 241236244, 241238246, 241242122, 241242202, 241242218, 241242234, 241243003,
    241243163, 241243195, 241243227, 241244249, 241245085, 241246046, 241246249, 241247007,
    241248249, 241249057, 241249242, 241250034, 241250210, 241251011, 241251203, 241251235,
    242002004, 242002008, 242002012, 242002180, 242002184, 242002188, 242002192, 242026035,
    242026197, 242042047, 242042197, 242044002, 242050058, 242050202, 242074081, 242074207,
    242074235, 242076002, 242077042, 242081074, 242082086, 242082206, 242084002, 242088066,
    242089026, 242092002, 242098104, 242098212, 242098236, 242100002, 242104098, 242107042,
    242109074, 242109090, 242110082, 242116098, 242117042, 242122123, 242122125, 242122127,
    242122213, 242122215, 242122217, 242122237, 242123122, 242124002, 242125026, 242125122,
    242127122, 242128098, 242129122, 242130114, 242131122, 242135122, 242137122, 242138050,
    242139122, 242143122, 242145122, 242146150, 242146166, 242146214, 242146222, 242146238,
    242147090, 242147122, 242152098, 242153122, 242155122, 242161122, 242162114, 242162164,
    242162180, 242162196, 242162220, 242162224, 242162236, 242163122, 242169122, 242170173,
    242170221, 242170227, 242170239, 242171122, 242177122, 242179122, 242179170, 242187154,
    242194114, 242194196, 242194204, 242194228, 242194232, 242194240, 242195122, 242200098,
    242202203, 242202229, 242202231, 242202233, 242202239, 242203122, 242203170, 242203202,
    242211202, 242214082, 242218221, 242218223, 242218237, 242218241, 242219202, 242219218,
    242221245, 242226114, 242226228, 242226236, 242227042, 242227202, 242227218, 242228244,
    242229253, 242230082, 242231255, 242234237, 242234239, 242235186, 242235202, 242235218,
    242235234, 242236252, 242237245, 242239247, 242243123, 242243203, 242243219, 242243235,
    242244004, 242245250, 242247047, 242247250, 242248008, 242249250, 242250058, 242250243,
    242251035, 242251211, 243003005, 243003009, 243003013, 243003181, 243003185, 243003189,
    243003193, 243027036, 243027180, 243027198, 243043048, 243043198, 243043228, 243048043,
    243051059, 243065003, 243072027, 243073003, 243075082, 243075208, 243075236, 243077003,
    243081003, 243083087, 243083207, 243085003, 243089003, 243089067, 243093003, 243099105,
    243099213, 243099237, 243101003, 243105099, 243111083, 243113003, 243113035, 243117099,
    243123124, 243123126, 243123128, 243123212, 243123214, 243123216, 243123218, 243123238,
    243124123, 243125003, 243128123, 243129099, 243130123, 243131115, 243136123, 243138123,
    243139051, 243144123, 243146123, 243147151, 243147167, 243147215, 243147223, 243147239,
    243153099, 243154123, 243162123, 243163115, 243163165, 243163181, 243163197, 243163221,
    243163225, 243163237, 243170123, 243171051, 243171174, 243171222, 243171228, 243171240,
    243178043, 243178123, 243187051, 243195115, 243195197, 243195205, 243195229, 243195233,
    243195241, 243201099, 243203051, 243203204, 243203212, 243203220, 243203228, 243203230,
    243203232, 243203234, 243203236, 243203240, 243215083, 243217035, 243219051, 243219220,
    243219222, 243219224, 243219228, 243219236, 243219238, 243219242, 243220244, 243222246,
    243227115, 243227229, 243227237, 243228252, 243229245, 243230254, 243231083, 243235051,
    243235236, 243235238, 243235240, 243236244, 243237253, 243238246, 243240248, 243244251,
    243245005, 243246251, 243248048, 243248251, 243249009, 243250082, 243250251, 244004006,
    244004010, 244004014, 244004190, 244004194, 244028037, 244028199, 244044049, 244044199,
    244046004, 244052060, 244052188, 244052204, 244052236, 244069044, 244073028, 244076083,
    244079044, 244084088, 244084208, 244088996, 244089044, 244091028, 244097076, 244099012,
    244100106, 244100214, 244100238, 244109028, 244109044, 244111076, 244112084, 244119044,
    244124127, 244124129, 244124213, 244124217, 244125076, 244125108, 244125124, 244127028,
    244129044, 244129060, 244129124, 244130100, 244131124, 244137124, 244138004, 244139044,
    244139076, 244139124, 244145124, 244146132, 244147124, 244150004, 244152148, 244153076,
    244153124, 244153140, 244154004, 244154100, 244155124, 244157012, 244159108, 244160148,
    244161124, 244163028, 244163124, 244164166, 244166004, 244166164, 244167156, 244168148,
    244169044, 244169124, 244170004, 244170164, 244171124, 244172229, 244174132, 244174164,
    244175060, 244175172, 244176148, 244177124, 244178164, 244179044, 244179124, 244179140,
    244181172, 244182164, 244184148, 244185124, 244186004, 244186164, 244187092, 244187124,
    244187172, 244189044, 244189156, 244190164, 244192148, 244193108, 244193172, 244194164,
    244195076, 244195124, 244195188, 244198164, 244198196, 244199172, 244200148, 244202004,
    244202100, 244202132, 244202164, 244202196, 244203124, 244204205, 244205172, 244205204,
    244206164, 244206196, 244207204, 244208148, 244209044, 244209076, 244209124, 244209188,
    244209204, 244210164, 244210196, 244211124, 244211156, 244211172, 244211204, 244213204,
    244214164, 244214196, 244215204, 244216020, 244216084, 244216148, 244216212, 244217028,
    244217124, 244217172, 244217204, 244218036, 244218164, 244218196, 244219044, 244219124,
    244219204, 244221060, 244221204, 244221220, 244222164, 244222196, 244223076, 244223124,
    244223172, 244223188, 244223204, 244223220, 244224148, 244224212, 244225092, 244225124,
    244225204, 244225220, 244226164, 244226196, 244227108, 244227124, 244227204, 244227220,
    244229204, 244229220, 244230132, 244230164, 244230196, 244230228, 244231140, 244231204,
    244231220, 244232084, 244232148, 244232212, 244233124, 244233156, 244233204, 244233220,
    244234004, 244234164, 244234196, 244234228, 244235028, 244235124, 244235172, 244235204,
    244235220, 244237076, 244237188, 244237204, 244237220, 244237236, 244238164, 244238196,
    244238228, 244239044, 244239124, 244239204, 244239220, 244239236, 244240148, 244240212,
    244241124, 244241172, 244241204, 244241220, 244241236, 244242164, 244242196, 244242228,
    244243124, 244243204, 244243220, 244243236, 244245125, 244245205, 244245221, 244245237,
    244246006, 244246166, 244246198, 244246230, 244247127, 244247175, 244247207, 244247223,
    244247239, 244248088, 244248152, 244248216, 244249049, 244249129, 244249209, 244249225,
    244249241, 244250010, 244250106, 244250170, 244250202, 244250234, 244251083, 244251131,
    244251195, 244251211, 244251227, 244251243, 244252060, 244252245, 244252247, 244252249,
    244252251, 244253037, 244253213, 244254014, 244254206, 244254238, 244255215, 244255231,
    245005007, 245005011, 245005015, 245005191, 245005195, 245029038, 245029200, 245045050,
    245045200, 245050045, 245053061, 245053205, 245060045, 245077053, 245077084, 245080045,
    245085089, 245085209, 245093053, 245101107, 245101215, 245101239, 245109053, 245110045,
    245112077, 245113085, 245120045, 245125126, 245125128, 245125130, 245125214, 245125218,
    245125220, 245130045, 245130061, 245130125, 245131101, 245138125, 245139005, 245141053,
    245146125, 245147005, 245147133, 245151005, 245153149, 245154077, 245154125, 245154141,
    245155005, 245155101, 245160109, 245161021, 245161149, 245162125, 245163005, 245165167,
    245167005, 245167165, 245168157, 245169149, 245170045, 245170125, 245171005, 245171165,
    245173230, 245175005, 245175133, 245175165, 245176061, 245176173, 245177149, 245178125,
    245179005, 245179165, 245182173, 245183165, 245185149, 245186125, 245187005, 245187165,
    245190157, 245191165, 245193149, 245194109, 245194173, 245195165, 245199165, 245199197,
    245200045, 245200173, 245201149, 245203005, 245203101, 245203133, 245203165, 245203197,
    245205206, 245205236, 245206173, 245206205, 245207165, 245207197, 245208205, 245209149,
    245210045, 245210077, 245210125, 245210189, 245210205, 245211165, 245211197, 245214205,
    245215165, 245215197, 245216205, 245217021, 245217085, 245217149, 245217213, 245218029,
    245218125, 245218173, 245218205, 245219037, 245219165, 245219197, 245221244, 245222205,
    245222221, 245223005, 245223165, 245223197, 245224077, 245224125, 245224173, 245224189,
    245224205, 245224221, 245225149, 245225213, 245226093, 245226125, 245226205, 245226221,
    245227005, 245227165, 245227197, 245230045, 245230205, 245230221, 245231133, 245231165,
    245231197, 245231229, 245232141, 245232205, 245232221, 245233085, 245233149, 245233213,
    245234125, 245234157, 245234205, 245234221, 245235005, 245235165, 245235197, 245235229,
    245238077, 245238189, 245238205, 245238221, 245238237, 245239165, 245239197, 245239229,
    245240125, 245240205, 245240221, 245240237, 245241149, 245241213, 245242125, 245242173,
    245242205, 245242221, 245242237, 245243165, 245243197, 245243229, 245246126, 245246206,
    245246222, 245246238, 245247007, 245247167, 245247199, 245247231, 245248128, 245248176,
    245248208, 245248224, 245248240, 245249089, 245249153, 245249217, 245250050, 245250130,
    245250210, 245250226, 245250242, 245251011, 245251107, 245251171, 245251203, 245251235,
    245252253, 245253061, 245253246, 245253248, 245253250, 245254038, 245254214, 245255015,
    245255207, 245255239, 246006008, 246006012, 246006016, 246006188, 246006192, 246006196,
    246030039, 246030201, 246046051, 246046201, 246048006, 246054062, 246054206, 246078085,
    246080006, 246081046, 246085078, 246086090, 246086210, 246088006, 246092070, 246093030,
    246096006, 246099078, 246102108, 246102216, 246104006, 246108102, 246111046, 246113078,
    246113094, 246114086, 246120102, 246121046, 246126129, 246126221, 246127078, 246127110,
    246127126, 246128006, 246129030, 246129126, 246130086, 246131046, 246131062, 246131126,
    246135126, 246136070, 246137126, 246138086, 246139126, 246142054, 246143126, 246144102,
    246145126, 246146086, 246147126, 246151126, 246152006, 246153126, 246154086, 246154150,
    246155078, 246155126, 246155142, 246161110, 246161126, 246162022, 246162086, 246162150,
    246163126, 246166168, 246166228, 246167126, 246168006, 246168102, 246168166, 246169126,
    246169158, 246170086, 246170150, 246171046, 246171126, 246174231, 246175126, 246176006,
    246176134, 246176166, 246177062, 246177126, 246177174, 246178150, 246179126, 246183174,
    246184166, 246185126, 246186086, 246186150, 246187126, 246191158, 246192166, 246193126,
    246194086, 246194150, 246195110, 246195126, 246195174, 246198236, 246198244, 246199126,
    246200166, 246200198, 246201046, 246201126, 246201174, 246202086, 246202150, 246203126,
    246206207, 246206237, 246207126, 246207174, 246207206, 246208166, 246208198, 246209126,
    246209206, 246210086, 246210150, 246211046, 246211078, 246211126, 246211190, 246211206,
    246215206, 246216166, 246216198, 246217126, 246217206, 246218022, 246218086, 246218150,
    246218214, 246219030, 246219126, 246219174, 246219206, 246222245, 246223206, 246223222,
    246224006, 246224166, 246224198, 246225078, 246225126, 246225174, 246225190, 246225206,
    246225222, 246226086, 246226150, 246226214, 246227094, 246227126, 246227206, 246227222,
    246231046, 246231206, 246231222, 246232134, 246232166, 246232198, 246232230, 246233142,
    246233206, 246233222, 246234086, 246234150, 246234214, 246235126, 246235158, 246235206,
    246235222, 246239078, 246239190, 246239206, 246239222, 246239238, 246240102, 246240166,
    246240198, 246240230, 246241126, 246241206, 246241222, 246241238, 246242086, 246242150,
    246242214, 246243126, 246243174, 246243206, 246243222, 246243238, 246247127, 246247207,
    246247223, 246247239, 246248008, 246248168, 246248200, 246248232, 246249129, 246249177,
    246249209, 246249225, 246249241, 246250090, 246250154, 246250218, 246251051, 246251131,
    246251211, 246251227, 246251243, 246252012, 246252108, 246253254, 246254062, 246254247,
    246254249, 246254251, 246255039, 246255215, 247007009, 247007013, 247007017, 247007189,
    247007193, 247007197, 247031040, 247031202, 247047052, 247047202, 247052047, 247055063,
    247055207, 247062047, 247065007, 247065039, 247069007, 247076031, 247077007, 247079086,
    247079212, 247081007, 247085007, 247087091, 247087211, 247089007, 247093007, 247093071,
    247097007, 247100079, 247103109, 247103217, 247105007, 247109103, 247112047, 247115087,
    247117007, 247117039, 247121103, 247127130, 247127132, 247127220, 247127222, 247128079,
    247128111, 247128127, 247129007, 247130031, 247130127, 247131087, 247136127, 247137071,
    247138127, 247139087, 247143055, 247144127, 247145103, 247146127, 247147087, 247152127,
    247153007, 247154127, 247155087, 247155151, 247162111, 247162127, 247163023, 247163087,
    247163151, 247167169, 247167229, 247168127, 247169007, 247169103, 247169167, 247170127,
    247170159, 247171087, 247171151, 247175232, 247175244, 247176127, 247177007, 247177135,
    247177167, 247178063, 247178127, 247178175, 247179151, 247184175, 247185167, 247186127,
    247187087, 247187151, 247192159, 247193167, 247194127, 247195087, 247195151, 247199237,
    247199245, 247200127, 247201167, 247201199, 247202047, 247202127, 247202175, 247203087,
    247203151, 247207208, 247207236, 247207238, 247207244, 247208127, 247208175, 247208207,
    247209167, 247209199, 247210127, 247210207, 247211087, 247211151, 247216207, 247217167,
    247217199, 247218127, 247218207, 247219023, 247219087, 247219151, 247219215, 247223228,
    247223246, 247224207, 247224223, 247225007, 247225167, 247225199, 247226079, 247226127,
    247226175, 247226191, 247226207, 247226223, 247227087, 247227151, 247227215, 247232047,
    247232207, 247232223, 247233135, 247233167, 247233199, 247233231, 247234143, 247234207,
    247234223, 247235087, 247235151, 247235215, 247239244, 247240079, 247240191, 247240207,
    247240223, 247240239, 247241103, 247241167, 247241199, 247241231, 247242127, 247242207,
    247242223, 247242239, 247243087, 247243151, 247243215, 247244252, 247248128, 247248208,
    247248224, 247248240, 247249009, 247249169, 247249201, 247249233, 247250130, 247250178,
    247250210, 247250226, 247250242, 247251091, 247251155, 247251219, 247252255, 247253013,
    247253109, 247254255, 247255063, 247255248, 247255250, 248008010, 248008014, 248008018,
    248008190, 248008194, 248008198, 248032041, 248032203, 248048053, 248048203, 248050008,
    248056064, 248056208, 248077032, 248080087, 248080213, 248088092, 248088212, 248101080,
    248104110, 248104218, 248113048, 248116088, 248128131, 248128133, 248128221, 248128223,
    248129080, 248129112, 248129128, 248130008, 248131032, 248131128, 248137128, 248138072,
    248139128, 248144056, 248145128, 248146104, 248147128, 248152156, 248152172, 248152220,
    248152228, 248152244, 248153128, 248154008, 248155128, 248163112, 248163128, 248168170,
    248168230, 248169128, 248170008, 248170104, 248170168, 248171128, 248171160, 248176233,
    248176245, 248177128, 248178008, 248178136, 248178168, 248179064, 248179128, 248179176,
    248185176, 248186168, 248187128, 248193160, 248194168, 248195128, 248200238, 248200246,
    248201128, 248202168, 248202200, 248203048, 248203128, 248203176, 248208209, 248208237,
    248208239, 248208245, 248209128, 248209176, 248209208, 248210168, 248210200, 248211128,
    248211208, 248217208, 248218168, 248218200, 248219128, 248219208, 248224229, 248224247,
    248225208, 248225224, 248226008, 248226168, 248226200, 248227080, 248227128, 248227176,
    248227192, 248227208, 248227224, 248233048, 248233208, 248233224, 248234136, 248234168,
    248234200, 248234232, 248235144, 248235208, 248235224, 248240245, 248241080, 248241192,
    248241208, 248241224, 248241240, 248242104, 248242168, 248242200, 248242232, 248243128,
    248243208, 248243224, 248243240, 248245253, 248249129, 248249209, 248249225, 248249241,
    248250010, 248250170, 248250202, 248250234, 248251131, 248251179, 248251211, 248251227,
    248251243, 248252092, 248253053, 248254014, 248984996, 248985172, 248985194, 248985238,
    249009011, 249009015, 249009019, 249009191, 249009195, 249009199, 249033042, 249033204,
    249042033, 249049054, 249049204, 249054049, 249057065, 249057209, 249064049, 249065057,
    249081057, 249081088, 249081214, 249084049, 249089093, 249089213, 249096033, 249097057,
    249105111, 249105219, 249113057, 249114049, 249117089, 249124049, 249129132, 249129134,
    249129156, 249129220, 249129222, 249129224, 249129244, 249130081, 249130113, 249130129,
    249131009, 249138129, 249139073, 249145057, 249146129, 249147105, 249153157, 249153173,
    249153221, 249153229, 249153245, 249154129, 249155009, 249169171, 249169231, 249170129,
    249171009, 249171105, 249171169, 249177180, 249177228, 249177234, 249177246, 249178129,
    249179009, 249179137, 249179169, 249186177, 249187169, 249194161, 249195169, 249201239,
    249201247, 249202129, 249203169, 249203201, 249209210, 249209236, 249209238, 249209240,
    249209246, 249210129, 249210177, 249210209, 249211169, 249211201, 249218209, 249219169,
    249219201, 249225228, 249225230, 249225244, 249225248, 249226209, 249226225, 249227009,
    249227169, 249227201, 249228252, 249234049, 249234209, 249234225, 249235137, 249235169,
    249235201, 249235233, 249241244, 249241246, 249242081, 249242193, 249242209, 249242225,
    249242241, 249243105, 249243169, 249243201, 249243233, 249244252, 249246254, 249250130,
    249250210, 249250226, 249250242, 249251011, 249251171, 249251203, 249251235, 249253093,
    249254054, 249255015, 249985997, 249986173, 249986195, 249986239, 250010012, 250010016,
    250010020, 250010188, 250010192, 250010196, 250010200, 250034043, 250034205, 250050055,
    250050205, 250052010, 250058066, 250058210, 250065050, 250082089, 250082215, 250082243,
    250084010, 250085050, 250089066, 250089082, 250090094, 250090214, 250092010, 250096074,
    250097034, 250100010, 250106112, 250106220, 250106244, 250108010, 250112106, 250115050,
    250117082, 250117098, 250118090, 250124106, 250125050, 250130133, 250130135, 250130157,
    250130221, 250130223, 250130225, 250130245, 250131082, 250131114, 250131130, 250136106,
    250138122, 250139130, 250146058, 250147130, 250154158, 250154174, 250154222, 250154230,
    250154246, 250155098, 250155130, 250160106, 250170122, 250170172, 250170188, 250170204,
    250170228, 250170232, 250170244, 250171130, 250178181, 250178229, 250178235, 250178247,
    250179130, 250187178, 250195162, 250202122, 250202204, 250202212, 250202236, 250202240,
    250202248, 250203130, 250208106, 250210211, 250210237, 250210239, 250210241, 250210247,
    250211130, 250211178, 250211210, 250219210, 250222090, 250226229, 250226231, 250226245,
    250226249, 250227210, 250227226, 250229253, 250234122, 250234236, 250234244, 250235050,
    250235210, 250235226, 250236252, 250238090, 250242245, 250242247, 250243194, 250243210,
    250243226, 250243242, 250245253, 250247255, 250251131, 250251211, 250251227, 250251243,
    250252012, 250255055, 250986998, 250987174, 250987196, 250987240, 251011013, 251011017,
    251011021, 251011189, 251011193, 251011197, 251011201, 251035044, 251035188, 251035206,
    251035242, 251044035, 251051056, 251051206, 251051236, 251056051, 251059067, 251069011,
    251069043, 251073011, 251081011, 251083090, 251083216, 251083244, 251085011, 251089011,
    251091095, 251091215, 251093011, 251097011, 251097075, 251101011, 251107113, 251107221,
    251107245, 251109011, 251113107, 251119091, 251121011, 251121043, 251125107, 251131059,
    251131132, 251131134, 251131136, 251131156, 251131158, 251131220, 251131222, 251131224,
    251131226, 251131246, 251137107, 251139123, 251147059, 251155159, 251155175, 251155223,
    251155231, 251155247, 251161107, 251171123, 251171173, 251171189, 251171205, 251171229,
    251171233, 251171245, 251179059, 251179182, 251179230, 251179236, 251179248, 251186051,
    251195059, 251203123, 251203205, 251203213, 251203237, 251203241, 251203249, 251209107,
    251211059, 251211212, 251211220, 251211228, 251211236, 251211238, 251211240, 251211242,
    251211244, 251211248, 251223091, 251225043, 251227059, 251227228, 251227230, 251227232,
    251227236, 251227244, 251227246, 251227250, 251228252, 251230254, 251235123, 251235237,
    251235245, 251237253, 251239091, 251243059, 251243244, 251243246, 251243248, 251244252,
    251246254, 251253013, 251987999, 252012014, 252012018, 252012022, 252012198, 252012202,
    252020988, 252036045, 252036207, 252042988, 252052057, 252052207, 252054012, 252060068,
    252060196, 252060212, 252060244, 252064988, 252077052, 252081036, 252084091, 252087052,
    252092096, 252092216, 252097004, 252097052, 252099036, 252105084, 252107020, 252108114,
    252108222, 252108246, 252108988, 252117036, 252117052, 252119084, 252120092, 252127052,
    252132135, 252133132, 252135036, 252135132, 252137052, 252137068, 252137132, 252138108,
    252139132, 252141132, 252143132, 252145132, 252146012, 252147052, 252147084, 252147132,
    252149132, 252151132, 252152988, 252153132, 252154140, 252155132, 252157132, 252158012,
    252159132, 252160156, 252161084, 252161132, 252161148, 252162012, 252162108, 252163132,
    252165020, 252167116, 252167132, 252168156, 252169132, 252171036, 252171132, 252172174,
    252173132, 252174012, 252174172, 252175132, 252175164, 252176156, 252177052, 252177132,
    252178012, 252178172, 252179132, 252180237, 252181132, 252182140, 252182172, 252183068,
    252183132, 252183180, 252184156, 252185132, 252186172, 252187052, 252187132, 252187148,
    252189180, 252190172, 252191132, 252192156, 252193132, 252194012, 252194172, 252195100,
    252195132, 252195180, 252196988, 252197052, 252197164, 252198172, 252199132, 252200156,
    252201116, 252201132, 252201180, 252202172, 252203084, 252203132, 252203196, 252205132,
    252206172, 252206204, 252207132, 252207180, 252208156, 252209132, 252210012, 252210108,
    252210140, 252210172, 252210204, 252211132, 252212213, 252213132, 252213180, 252213212,
    252214172, 252214204, 252215132, 252215212, 252216156, 252217052, 252217084, 252217132,
    252217196, 252217212, 252218172, 252218204, 252218988, 252219132, 252219164, 252219180,
    252219212, 252221212, 252222172, 252222204, 252223132, 252223212, 252224028, 252224092,
    252224156, 252224220, 252225036, 252225132, 252225180, 252225212, 252226044, 252226172,
    252226204, 252227052, 252227132, 252227212, 252229068, 252229212, 252229228, 252230172,
    252230204, 252231084, 252231132, 252231180, 252231196, 252231212, 252231228, 252232156,
    252232220, 252233100, 252233132, 252233212, 252233228, 252234172, 252234204, 252235116,
    252235132, 252235212, 252235228, 252237212, 252237228, 252238140, 252238172, 252238204,
    252238236, 252239148, 252239212, 252239228, 252240092, 252240156, 252240220, 252240988,
    252241132, 252241164, 252241212, 252241228, 252242012, 252242172, 252242204, 252242236,
    252243036, 252243132, 252243180, 252243212, 252243228, 252245084, 252245196, 252245212,
    252245228, 252245244, 252246172, 252246204, 252246236, 252247052, 252247132, 252247212,
    252247228, 252247244, 252248156, 252248220, 252249132, 252249180, 252249212, 252249228,
    252249244, 252250172, 252250204, 252250236, 252251132, 252251212, 252251228, 252251244,
    252253133, 252253213, 252253229, 252253245, 252254014, 252254174, 252254206, 252254238,
    252255135, 252255183, 252255215, 252255231, 252255247, 252989000, 253013015, 253013019,
    253013023, 253013199, 253013203, 253021989, 253037046, 253037208, 253043989, 253046037,
    253053058, 253053208, 253058053, 253061069, 253061213, 253068053, 253069061, 253085061,
    253085092, 253088053, 253093097, 253093217, 253100037, 253101061, 253109115, 253109223,
    253109247, 253109989, 253117061, 253118053, 253120085, 253121093, 253128053, 253133136,
    253133228, 253134133, 253136037, 253136133, 253138053, 253138069, 253138133, 253139109,
    253142133, 253144133, 253146133, 253147013, 253149061, 253150133, 253152133, 253153989,
    253154133, 253155013, 253155141, 253158133, 253159013, 253160133, 253161157, 253162085,
    253162133, 253162149, 253163013, 253163109, 253168117, 253168133, 253169029, 253169157,
    253170133, 253171013, 253173175, 253174133, 253175013, 253175173, 253175989, 253176133,
    253176165, 253177157, 253178053, 253178133, 253179013, 253179173, 253181238, 253182133,
    253183013, 253183141, 253183173, 253184069, 253184133, 253184181, 253185157, 253186133,
    253187013, 253187173, 253190181, 253191173, 253192133, 253193157, 253194133, 253195013,
    253195173, 253197989, 253198165, 253199173, 253200133, 253201157, 253202117, 253202133,
    253202181, 253203173, 253206133, 253207173, 253207205, 253208053, 253208133, 253208181,
    253209157, 253210133, 253211013, 253211109, 253211141, 253211173, 253211205, 253213214,
    253213244, 253214133, 253214181, 253214213, 253215173, 253215205, 253216133, 253216213,
    253217157, 253218053, 253218085, 253218133, 253218197, 253218213, 253219173, 253219205,
    253219989, 253222213, 253223173, 253223205, 253224133, 253224213, 253225029, 253225093,
    253225157, 253225221, 253226037, 253226133, 253226181, 253226213, 253227045, 253227173,
    253227205, 253229252, 253230069, 253230213, 253230229, 253231013, 253231173, 253231205,
    253232085, 253232133, 253232181, 253232197, 253232213, 253232229, 253233157, 253233221,
    253234101, 253234133, 253234213, 253234229, 253235013, 253235173, 253235205, 253238053,
    253238213, 253238229, 253239141, 253239173, 253239205, 253239237, 253240149, 253240213,
    253240229, 253241093, 253241157, 253241221, 253241989, 253242133, 253242165, 253242213,
    253242229, 253243013, 253243173, 253243205, 253243237, 253246085, 253246197, 253246213,
    253246229, 253246245, 253247173, 253247205, 253247237, 253248133, 253248213, 253248229,
    253248245, 253249157, 253249221, 253250133, 253250181, 253250213, 253250229, 253250245,
    253251173, 253251205, 253251237, 253254134, 253254214, 253254230, 253254246, 253255015,
    253255175, 253255207, 253255239, 253990001, 254014016, 254014020, 254014024, 254014196,
    254014200, 254014204, 254022990, 254038047, 254038209, 254044990, 254054059, 254054209,
    254056014, 254062070, 254062214, 254069054, 254086093, 254088014, 254088990, 254089054,
    254093070, 254093086, 254094098, 254094218, 254096014, 254100078, 254101038, 254104014,
    254107086, 254110116, 254110224, 254110990, 254112014, 254116110, 254119054, 254121086,
    254121102, 254122094, 254128110, 254129054, 254130094, 254134137, 254134229, 254135086,
    254135118, 254135134, 254136014, 254137038, 254137134, 254138094, 254139054, 254139070,
    254139134, 254143134, 254144078, 254145134, 254146094, 254147134, 254150062, 254151134,
    254152110, 254153134, 254154094, 254154990, 254155134, 254159134, 254160014, 254161134,
    254162094, 254162158, 254163086, 254163134, 254163150, 254169118, 254169134, 254170030,
    254170094, 254170158, 254171134, 254174176, 254174236, 254175134, 254176014, 254176110,
    254176174, 254176990, 254177134, 254177166, 254178094, 254178158, 254179054, 254179134,
    254182239, 254183134, 254184014, 254184142, 254184174, 254185070, 254185134, 254185182,
    254186158, 254187134, 254191182, 254192174, 254193134, 254194094, 254194158, 254195134,
    254198990, 254199166, 254200174, 254201134, 254202094, 254202158, 254203118, 254203134,
    254203182, 254206244, 254206252, 254207134, 254208174, 254208206, 254209054, 254209134,
    254209182, 254210094, 254210158, 254211134, 254214215, 254214245, 254215134, 254215182,
    254215214, 254216174, 254216206, 254217134, 254217214, 254218094, 254218158, 254219054,
    254219086, 254219134, 254219198, 254219214, 254220990, 254223214, 254224174, 254224206,
    254225134, 254225214, 254226030, 254226094, 254226158, 254226222, 254227038, 254227134,
    254227182, 254227214, 254230253, 254231214, 254231230, 254232014, 254232174, 254232206,
    254233086, 254233134, 254233182, 254233198, 254233214, 254233230, 254234094, 254234158,
    254234222, 254235102, 254235134, 254235214, 254235230, 254239054, 254239214, 254239230,
    254240142, 254240174, 254240206, 254240238, 254241150, 254241214, 254241230, 254242094,
    254242158, 254242222, 254242990, 254243134, 254243166, 254243214, 254243230, 254247086,
    254247198, 254247214, 254247230, 254247246, 254248110, 254248174, 254248206, 254248238,
    254249134, 254249214, 254249230, 254249246, 254250094, 254250158, 254250222, 254251134,
    254251182, 254251214, 254251230, 254251246, 254255135, 254255215, 254255231, 254255247,
    254991002, 255015017, 255015021, 255015025, 255015197, 255015201, 255015205, 255023991,
    255039048, 255039210, 255045991, 255048039, 255055060, 255055210, 255060055, 255063071,
    255063215, 255065015, 255067991, 255073015, 255073047, 255077015, 255084039, 255085015,
    255087094, 255087220, 255089015, 255093015, 255095099, 255095219, 255097015, 255101015,
    255101079, 255105015, 255108087, 255111117, 255111225, 255111991, 255113015, 255117111,
    255120055, 255123095, 255125015, 255125047, 255129111, 255130055, 255131095, 255135138,
    255135140, 255135228, 255135230, 255136087, 255136119, 255136135, 255137015, 255138039,
    255138135, 255139095, 255144135, 255145079, 255146135, 255147095, 255151063, 255152135,
    255153111, 255154135, 255155095, 255160135, 255161015, 255162135, 255163095, 255163159,
    255170119, 255170135, 255171031, 255171095, 255171159, 255175177, 255175237, 255176135,
    255177015, 255177111, 255177175, 255177991, 255178135, 255178167, 255179095, 255179159,
    255183240, 255183252, 255184135, 255185015, 255185143, 255185175, 255186071, 255186135,
    255186183, 255187159, 255192183, 255193175, 255194135, 255195095, 255195159, 255199991,
    255200167, 255201175, 255202135, 255203095, 255203159, 255207245, 255207253, 255208135,
    255209175, 255209207, 255210055, 255210135, 255210183, 255211095, 255211159, 255215216,
    255215244, 255215246, 255215252, 255216135, 255216183, 255216215, 255217175, 255217207,
    255218135, 255218215, 255219095, 255219159, 255221991, 255224215, 255225175, 255225207,
    255226135, 255226215, 255227031, 255227095, 255227159, 255227223, 255231236, 255231254,
    255232215, 255232231, 255233015, 255233175, 255233207, 255234087, 255234135, 255234183,
    255234199, 255234215, 255234231, 255235095, 255235159, 255235223, 255240055, 255240215,
    255240231, 255241143, 255241175, 255241207, 255241239, 255242151, 255242215, 255242231,
    255243095, 255243159, 255243223, 255243991, 255247252, 255248087, 255248199, 255248215,
    255248231, 255248247, 255249111, 255249175, 255249207, 255249239, 255250135, 255250215,
    255250231, 255250247, 255251095, 255251159, 255251223
    }

\* HslOf with the hue offset of the green case taken from the blue case.
HslOf_GreenOffsetFour(r, g, b) ==
    IF IsNaN(r) \/ IsNaN(g) \/ IsNaN(b)
    THEN \* max, min, l, d, s are NaN; no case of switch(max) matches, h = 0
         [h |-> 0, s |-> NaN, l |-> NaN]
    ELSE
    LET max == Max2(r, Max2(g, b))
        min == Min2(r, Min2(g, b))
        d   == max - min
        sum == max + min
        \* l = (max + min) / 2 with channels over 255; l * 100 = 100 sum / 510
        l   == RoundDiv(100 * sum, 510)
        \* l > 0.5 ? d / (2 - max - min) : d / (max + min); d / 0 is Infinity
        s   == IF sum > 255 THEN RoundDiv(100 * d, 510 - sum)
               ELSE IF sum = 0 THEN Infinity
               ELSE RoundDiv(100 * d, sum)
        \* h * 360 / 6 = 60 * ((g - b) / d + 6 [g < b]), 60 * ((b - r) / d + 2),
        \* 60 * ((r - g) / d + 4); switch(max) takes the first matching case
        h   == IF max = r
               THEN RoundDiv(60 * (g - b) + (IF g < b THEN 360 * d ELSE 0), d)
               ELSE IF max = g
               THEN RoundDiv(60 * (b - r) + 240 * d, d)
               ELSE RoundDiv(60 * (r - g) + 240 * d, d)
        hBelow == 1000000 * r + 1000 * g + b \in HueBelowHalf
        sBelow == <<max, min>> \in SatBelowHalf
    IN  IF max = min THEN [h |-> 0, s |-> 0, l |-> l]
        ELSE [h |-> IF hBelow THEN h - 1 ELSE h,
              s |-> IF sBelow THEN s - 1 ELSE s,
              l |-> l]

\* The body of hexToHsl after the channels are parsed: r, g, b are integers
\* in -15..255 or NaN.
HslOf(r, g, b) ==
    IF IsNaN(r) \/ IsNaN(g) \/ IsNaN(b)
    THEN \* max, min, l, d, s are NaN; no case of switch(max) matches, h = 0
         [h |-> 0, s |-> NaN, l |-> NaN]
    ELSE
    LET max == Max2(r, Max2(g, b))
        min == Min2(r, Min2(g, b))
        d   == max - min
        sum == max + min
        \* l = (max + min) / 2 with channels over 255; l * 100 = 100 sum / 510
        l   == RoundDiv(100 * sum, 510)
        \* l > 0.5 ? d / (2 - max - min) : d / (max + min); d / 0 is Infinity
        s   == IF sum > 255 THEN RoundDiv(100 * d, 510 - sum)
               ELSE IF sum = 0 THEN Infinity
               ELSE RoundDiv(100 * d, sum)
        \* h * 360 / 6 = 60 * ((g - b) / d + 6 [g < b]), 60 * ((b - r) / d + 2),
        \* 60 * ((r - g) / d + 4); switch(max) takes the first matching case
        h   == IF max = r
               THEN RoundDiv(60 * (g - b) + (IF g < b THEN 360 * d ELSE 0), d)
               ELSE IF max = g
               THEN RoundDiv(60 * (b - r) + 120 * d, d)
               ELSE RoundDiv(60 * (r - g) + 240 * d, d)
        hBelow == 1000000 * r + 1000 * g + b \in HueBelowHalf
        sBelow == <<max, min>> \in SatBelowHalf
    IN  IF max = min THEN [h |-> 0, s |-> 0, l |-> l]
        ELSE [h |-> IF hBelow THEN h - 1 ELSE h,
              s |-> IF sBelow THEN s - 1 ELSE s,
              l |-> l]

\* hexToHsl without the fallback branch: every length other than 4 is parsed
\* as the full form, substring() yielding "" past the end of the string.
hexToHsl_NoFallback(hex) ==
    LET at(i) == IF i <= Len(hex) THEN hex[i] ELSE ""
    IN  IF Len(hex) = 4
        THEN HslOf(parseInt16(hex[2], hex[2]), parseInt16(hex[3], hex[3]),
                   parseInt16(hex[4], hex[4]))
        ELSE HslOf(parseInt16(at(2), at(3)), parseInt16(at(4), at(5)),
                   parseInt16(at(6), at(7)))

hexToHsl(hex) ==
    IF Len(hex) = 4
    THEN HslOf(parseInt16(hex[2], hex[2]), parseInt16(hex[3], hex[3]),
               parseInt16(hex[4], hex[4]))
    ELSE IF Len(hex) = 7
    THEN HslOf(parseInt16(hex[2], hex[3]), parseInt16(hex[4], hex[5]),
               parseInt16(hex[6], hex[7]))
    ELSE [h |-> 0, s |-> 0, l |-> 0]

-----------------------------------------------------------------------------
(* hslToHex                                                                *)

\* The source evaluates hslToHex in double arithmetic.  Where the exact value
\* of c * 255 is a half-integer the double value can lie just below it, and
\* Math.round then gives the integer below; these arguments are tabulated,
\* complete for h in 0..360 with s and l in 0..100 and for the arguments
\* generatePalette passes when a channel of the base colour is negative.

\* (s, l) for which the double value of 255 * p, p = 2l - q, is just below
\* its exact half-integer value.
PBelowHalf == {
    <<-2700,55>>, <<-2700,85>>, <<-2300,55>>, <<-2300,85>>, <<-1900,55>>, <<-1500,55>>,
    <<-1100,55>>, <<-700,55>>, <<50,20>>, <<60,25>>, <<75,40>>, <<75,60>>,
    <<80,50>>, <<100,95>>, <<175,40>>, <<200,10>>, <<200,70>>, <<220,25>>,
    <<325,40>>, <<400,70>>, <<475,40>>, <<500,95>>, <<600,70>>, <<900,55>>,
    <<900,85>>, <<900,95>>, <<1000,10>>, <<1200,70>>, <<1300,55>>, <<1300,85>>,
    <<1400,70>>, <<1600,10>>, <<1700,85>>, <<1700,95>>, <<2100,85>>, <<2100,95>>,
    <<2500,85>>, <<2900,85>>, <<2900,95>>
    }

\* (s, l) for which the double value of 255 * q is just below its exact
\* half-integer value.
QBelowHalf == {
    <<-2900,95>>, <<-2500,95>>, <<-2100,85>>, <<-2100,95>>, <<-1700,95>>, <<-1400,70>>,
    <<-1300,85>>, <<-1300,95>>, <<-1200,70>>, <<-1000,70>>, <<-900,85>>, <<-900,95>>,
    <<-800,10>>, <<-800,70>>, <<-600,70>>, <<-500,55>>, <<-500,85>>, <<-400,10>>,
    <<-275,40>>, <<-220,25>>, <<-200,70>>, <<-175,40>>, <<-100,95>>, <<300,55>>,
    <<700,55>>, <<700,85>>, <<800,70>>, <<1000,70>>, <<1500,85>>, <<1500,95>>,
    <<1900,95>>
    }

\* Arguments and channel (0 = r, 1 = g, 2 = b), as
\* ((h * 6001 + s + 2900) * 107 + l + 6) * 3 + channel, for which the double
\* value of 255 * hue2rgb(p, q, t) on one of the two ramps is just below its exact
\* half-integer value.
RampBelowHalf == {
    2937610, 4623271, 4864066, 4864096, 4944091, 4944271, 6790252, 7031047,
    8475988, 8756698, 9117868, 9181978, 10353994, 10498579, 10564381, 10565167,
    10567810, 10575409, 10578694, 10578754, 10580431, 10581844, 10583218, 10585018,
    10588234, 10588294, 10588414, 10588450, 10588462, 10588474, 10588486, 10595983,
    10597954, 10601329, 10606255, 10614094, 10617118, 10617214, 10626739, 10626799,
    10633204, 10636474, 10642894, 10646044, 10691134, 10755379, 10755409, 10771294,
    10835494, 10947754, 10947934, 12529225, 12529255, 12569125, 12569305, 12649375,
    12649555, 12729625, 12809875, 14495536, 15860152, 16181062, 16421749, 16461982,
    16502272, 17946973, 18348178, 20033839, 20197414, 20202190, 20210194, 20213539,
    20218264, 20226319, 20226403, 20226439, 20226511, 20242534, 20242564, 20248774,
    20250364, 20258359, 20258539, 20274454, 20290639, 20306764, 20322535, 20322739,
    20354659, 20354839, 20386939, 20418859, 20419039, 20435044, 20579359, 20579539,
    20675659, 20932459, 20932639, 21125239, 22200820, 22569925, 23244436, 23244526,
    23886556, 24167266, 24367801, 24528436, 26037367, 26053462, 27939748, 27979693,
    27979873, 28019818, 28019998, 28059943, 28060123, 28140193, 28380943, 29376499,
    29841964, 29849857, 29864329, 29874004, 29890219, 29906104, 29915689, 29938204,
    29954344, 29970304, 30146899, 30146989, 30211144, 30339364, 30339544, 31270720,
    31591630, 31792252, 31872550, 31912840, 32362030, 33742651, 33758746, 35396122,
    35444407, 35685232, 35765407, 35925727, 36086227, 37611388, 38783404, 39297124,
    39328969, 39473425, 39473497, 39481594, 39489484, 39489544, 39505549, 39513634,
    39515194, 39521569, 39521749, 39529684, 39540874, 39553924, 39569749, 39577834,
    39585949, 39617914, 39650149, 39669274, 39682324, 39810694, 39810724, 39842569,
    39842749, 39939004, 39939094, 40324204, 40324294, 40324324, 40934335, 41447935,
    41464030, 43350151, 43382281, 43390261, 43390441, 43430641, 43470691, 43550761,
    43550941, 43791511, 43791691, 45316672, 45428977, 46841833, 47258998, 47283118,
    47323408, 47387398, 47483653, 47483833, 47965378, 48703774, 48880414, 48912514,
    48960574, 48960754, 49024999, 49097221, 49153159, 49169314, 49281829, 49474354,
    51047515, 51055426, 51095590, 51175795, 51175975, 51256270, 51288190, 51496795,
    51496975, 51817795, 51817975, 53021956, 53134261, 53262841, 54258082, 54707692,
    54988402, 55285282, 58276054, 58303279, 58335379, 58367479, 58372354, 58399759,
    58404454, 58431679, 58431859, 58436554, 58463959, 58496059, 58511929, 58532854,
    58544029, 58592179, 58624279, 58632304, 58634872, 58742146, 58742788, 58743169,
    58743430, 58744072, 58744453, 58744714, 58745356, 58745737, 58745998, 58746640,
    58746961, 58747282, 58747603, 58747924, 58748245, 58748566, 58748887, 58749208,
    58749529, 58749850, 58750171, 58750492, 58750813, 58751194, 58751455, 58752097,
    58752478, 58752739, 58753060, 58753381, 58753702, 58754023, 58754344, 58754665,
    58754986, 58755307, 58755628, 58755949, 58756270, 58756591, 58756912, 58757173,
    58757554, 58757875, 58758196, 58758457, 58758838, 58759159, 58759741, 58761025,
    58762309, 58763593, 58764877, 58765198, 58765519, 58766161, 58766482, 58766803,
    58767445, 58767766, 58768087, 58768729, 58769050, 58769371, 58770013, 58770334,
    58770655, 58771297, 58771618, 58771939, 58772581, 58772902, 58773544, 58773865,
    58774186, 58774828, 58775149, 58775470, 58776112, 58776433, 58776754, 58777396,
    58777717, 58778038, 58778680, 58779001, 58779322, 58779964, 58780285, 58780606,
    58781890, 58783174, 58784458, 58784779, 58785421, 58786063, 58786705, 58787347,
    58787989, 58788631, 58789273, 58789915, 58790557, 58791199, 58791841, 58793626,
    58794589, 58797157, 58798762, 58800829, 58802113, 58802755, 58804039, 58804219,
    58805182, 58805965, 58806607, 58807249, 58807750, 58807891, 58820089, 58821373,
    58821553, 58822516, 58822978, 58823479, 58825084, 58825225, 58826509, 58827652,
    58827793, 58831324, 58832929, 58833109, 58835176, 58836319, 58837102, 58837744,
    58838386, 58839349, 58840954, 58842238, 58842739, 58845769, 58852189, 58865029,
    58865209, 58870666, 58873234, 58877869, 58902586, 58902766, 58916389, 58920562,
    58929229, 58942069, 58945279, 58945459, 58958119, 58961329, 58961509, 58974169,
    58977559, 58984762, 58993609, 59009479, 59009659, 59027776, 59038369, 59041579,
    59041759, 59073679, 59073859, 59102569, 59105959, 59134669, 59138059, 59166769,
    59169979, 59170159, 59202079, 59202259, 59230969, 59234179, 59234359, 59263069,
    59327269, 59391469, 59519869, 59648269, 60727240, 62091856, 62091946, 62091976,
    62155966, 62412766, 62605516, 63183166, 64178797, 64563787, 64579882, 65623363,
    65623543, 66442108, 66907363, 66907543, 67228363, 67228543, 67966984, 67967164,
    68143624, 68159719, 68159839, 68175724, 68223784, 68288029, 68365219, 68384470,
    68737564, 69476230, 69476260, 69957505, 69957685, 70118260, 70182250, 70238470,
    70599685, 70760230, 73328647, 73328827, 74139367, 74211397, 74372077, 74612647,
    74612827, 74933647, 74933827, 75993313, 76378693, 76378723, 76506913, 77117344,
    77598589, 77598769, 77759314, 77759344, 77849014, 77855389, 77887624, 77887744,
    77919589, 77990404, 78000025, 78016054, 78016084, 78016114, 78028774, 78031969,
    78047965, 78047977, 78096169, 78104254, 78144514, 78144544, 78208534, 78336934,
    78369169, 78658024, 79990450, 81515611, 81756436, 82045126, 82077406, 82077436,
    82157431, 82157611, 82318111, 83843092, 83955397, 84822418, 84950818, 85079218,
    85809538, 85849618, 85978018, 86170798, 86170828, 87230194, 87230374, 87294619,
    87294649, 87358594, 87358774, 87486994, 87551449, 87576919, 87639691, 87695734,
    87727834, 87808129, 87872374, 88000774, 88064929, 88065019, 88129174, 88739395,
    89573935, 89581828, 89582020, 89621965, 89662090, 89782645, 90023215, 90023395,
    90344215, 90344395, 92913082, 92913112, 92977102, 93073537, 93354322, 93362302,
    93514822, 93555082, 93619102, 93715537, 94197112, 95401018, 96316099, 96316279,
    96444499, 96444679, 96508879, 96861799, 96861979, 96958099, 96958279, 97054399,
    97054579, 97118599, 97118779, 97150699, 97150879, 97182979, 97198984, 97199104,
    97214899, 97215079, 97250404, 97255258, 97263214, 97276084, 97279339, 97327384,
    97391584, 97536079, 97728499, 97728679, 98049679, 99253660, 99494545, 99494575,
    100939366, 101131786, 101139856, 101220106, 101260186, 101581366, 101581396, 102030586,
    103106302, 104631463, 104912413, 104976553, 104984503, 104992393, 104992423, 105032533,
    105072793, 105072883, 105193213, 105273283, 105273463, 105433783, 105433963, 106493404,
    106493584, 106670044, 106686139, 106686229, 106686259, 106702144, 106750204, 106750384,
    106814449, 106830544, 106840339, 106885210, 106885234, 106891639, 106891669, 106898074,
    106901224, 106901911, 106912423, 106920424, 106936366, 106955824, 106994419, 107263984,
    108259270, 108323650, 108323680, 108516070, 108644470, 108772870, 108901270, 108925390,
    108965650, 110410471, 110410501, 110811586, 111855067, 111855247, 112497067, 112737796,
    112898542, 112898572, 113139247, 113460247, 115579563, 115579564, 115707963, 115707964,
    115836334, 115836363, 115836364, 115964763, 115964764, 116060989, 116093133, 116093134,
    116093163, 116093164, 116125188, 116125189, 116189389, 116221533, 116221534, 116221563,
    116221564, 116253409, 116253589, 116317789, 116349844, 116349933, 116349934, 116381809,
    116422024, 116439634, 116446189, 116454124, 116478363, 116478364, 116516673, 116518227,
    116518275, 116518323, 116523168, 116526468, 116536008, 116542293, 116542323, 116542353,
    116542383, 116542413, 116550423, 116558340, 116558364, 116558388, 116566473, 116568033,
    116582523, 116593713, 116598573, 116606643, 116606644, 116619393, 116622588, 116630673,
    116638584, 116638608, 116645073, 116646723, 116670753, 116696433, 116722113, 116735043,
    116735044, 116735133, 116735134, 116767008, 116767188, 116767189, 116799081, 116799153,
    116831208, 116831388, 116831389, 116863443, 116863533, 116863563, 116895408, 116895588,
    116927553, 116959608, 116959788, 116991843, 116991933, 116991934, 116991963, 116991964,
    117023808, 117023988, 117055953, 117120243, 117120363, 117120364, 117184353, 117248643,
    117248733, 117312753, 117377043, 117441153, 117505443, 117505563, 118516869, 120395070,
    120403005, 120443079, 120443145, 120483255, 120507345, 120523530, 120571545, 120603735,
    120603825, 120603855, 120635745, 120844350, 120844530, 121165530, 121968396, 121968426,
    122369511, 123669837, 123734217, 123734247, 124055037, 124183437, 124311837, 124335957,
    124376127, 124376217, 125210637, 125756613, 125756793, 125933253, 125949348, 125949438,
    125949468, 126013413, 126013593, 126077658, 126093753, 126103548, 126148419, 126148443,
    126154848, 126154878, 126161283, 126164433, 126165120, 126175632, 126199575, 126206148,
    126219033, 126257628, 127747134, 127747314, 127907634, 127907814, 127987884, 127988064,
    128028144, 128028264, 128188734, 128309064, 131182521, 131439321, 131567721, 131760411,
    131760501, 131824521, 132402531, 133887240, 133927437, 134168232, 134168322, 134168352,
    134296542, 135564735, 135725523, 135776823, 135781473, 135781629, 135781677, 135783093,
    135786378, 135789633, 135789663, 135792798, 135795933, 135797523, 135797703, 135799218,
    135802503, 135805494, 135805506, 135805518, 135805530, 135805542, 135805554, 135805566,
    135805578, 135805590, 135805602, 135805614, 135805626, 135805638, 135805698, 135805758,
    135808773, 135813573, 135821553, 135821613, 135829623, 135834453, 135837618, 135837798,
    135845673, 135847293, 135853803, 135853893, 135869718, 135869898, 135885813, 135901818,
    135901998, 135918003, 135918093, 135933918, 135934098, 135958023, 135966018, 135998118,
    135998298, 136014213, 136062318, 136062498, 136158618, 136158798, 136254918, 136255098,
    136511718, 136511898, 136575918, 136576098, 136704318, 136704498, 136768518, 136768698,
    137763984, 137780079, 139658355, 139666275, 139706292, 139722405, 139746525, 139786695,
    139786785, 139850805, 139947060, 139947240, 140107605, 140428695, 140428815, 140621205,
    141632721, 141745026, 142001826, 143510922, 143519007, 143558952, 143599077, 143599257,
    143719632, 143960202, 143960382, 144281202, 144281382, 145019823, 145020003, 145084248,
    145084278, 145148223, 145148403, 145276623, 145341078, 145366548, 145429320, 145485363,
    145517463, 145597758, 145662003, 145790403, 145854558, 145854648, 145918803, 146464689,
    146593089, 146721489, 147171069, 147235089, 147813099, 151200081, 151216206, 151224141,
    151264281, 151328481, 151344486, 151344666, 151392681, 151424871, 151424961, 151424991,
    151456881, 151504986, 151505166, 151665486, 151665666, 153150450, 153174552, 153190647,
    155043243, 155044743, 155049588, 155052708, 155052816, 155052864, 155052888, 155052912,
    155055933, 155060697, 155060745, 155060793, 155060853, 155062428, 155068863, 155068893,
    155068923, 155068953, 155068983, 155076843, 155081613, 155084808, 155092893, 155100804,
    155100816, 155100828, 155101008, 155107293, 155108943, 155124993, 155132913, 155132973,
    155149008, 155157093, 155165028, 155165208, 155197263, 155197353, 155197383, 155210013,
    155229228, 155229408, 155261301, 155261373, 155325663, 155325753, 155325783, 155389773,
    155421828, 155422008, 155518173, 155710863, 155710953, 155710983, 155903373, 157043289,
    157284084, 157284174, 157284204, 157412394, 158897490, 158905440, 158913390, 158921490,
    158929530, 158929620, 158945490, 158969496, 158969520, 158969700, 158977590, 159009690,
    159041790, 159049770, 159049950, 159130020, 159130200, 159370770, 159370950, 159691770,
    159691950, 160879836, 160895931, 162774057, 162782031, 162782079, 162782127, 162862377,
    162902457, 163030857, 163062912, 163063092, 163223547, 163223637, 163223667, 163544457,
    164283213, 164475768, 164475888, 164539833, 164681268, 164700519, 164700567, 164706798,
    164716377, 164716473, 164732568, 164732658, 164748573, 164796609, 164796813, 164844873,
    164860878, 164876973, 165053433, 165053613, 165792054, 166610799, 166755234, 167076054,
    167076234, 167397054, 168200010, 168200130, 169901541, 169965831, 169965921, 169965951,
    170029941, 170286741, 170415141, 173850438, 173850618, 173855313, 173882538, 173882718,
    173887413, 173914638, 173914818, 173919513, 173946738, 173946918, 173951613, 173978838,
    173979018, 173983713, 174010938, 174011118, 174015813, 174043038, 174043218, 174047913,
    174075138, 174075318, 174080013, 174091188, 174091368, 174107238, 174107418, 174112113,
    174123288, 174123468, 174139338, 174139518, 174144213, 174155388, 174155568, 174171438,
    174171618, 174176313, 174182031, 174182211, 174187488, 174187668, 174192945, 174193125,
    174203538, 174203718, 174208413, 174211563, 174211743, 174214131, 174214311, 174219588,
    174219768, 174225045, 174225225, 174227613, 174227793, 174235638, 174235818, 174240513,
    174242058, 174242238, 174243663, 174243843, 174246231, 174246411, 174248478, 174248658,
    174251688, 174251868, 174254898, 174255078, 174257145, 174257325, 174259713, 174259893,
    174261318, 174261498, 174262281, 174262461, 174263244, 174263424, 174267738, 174267918,
    174271911, 174272091, 174272232, 174272412, 174272613, 174273195, 174273375, 174274158,
    174274338, 174275763, 174275943, 174277047, 174278331, 174279936, 174280116, 174280578,
    174280758, 174281541, 174281862, 174283788, 174285714, 174286035, 174286998, 174287961,
    174288282, 174289245, 174290208, 174290529, 174291171, 174291813, 174292776, 177542625,
    177671025, 177992115, 177992205, 177992235, 178056225, 180159141, 180271446, 180399936,
    180400026, 180400056, 182021217, 182037342, 182045253, 182045277, 182085417, 182165622,
    182165802, 182246007, 182246097, 182246127, 182278017, 182486622, 182486802, 182807622,
    182807802, 183939690, 183944328, 183947583, 183947643, 183957243, 183963525, 183963549,
    183963573, 183963597, 183963621, 183963645, 183963753, 183979683, 183995628, 183995688,
    184011783, 184047048, 184059843, 184060023, 184075983, 184108083, 184124178, 184124268,
    184124298, 184140183, 184204383, 184316643, 184316823, 185897979, 185954109, 185978229,
    186018399, 186018519, 186082509, 186178764, 186178944, 186210909, 186339309, 186660399,
    186660489, 186724509, 187864425, 187976730, 188907906, 189550086, 189790656, 189831036,
    190191906, 191676870, 191700972, 191717067, 191957772, 193338315, 193569513, 193571163,
    193571223, 193576008, 193579080, 193579104, 193579128, 193579152, 193579176, 193579200,
    193579308, 193582503, 193587213, 193587273, 193587321, 193588848, 193595133, 193595163,
    193595193, 193595223, 193595253, 193603263, 193611228, 193619217, 193619313, 193620873,
    193627248, 193627428, 193635363, 193646553, 193651413, 193659483, 193659573, 193659603,
    193675428, 193683513, 193691448, 193691628, 193697913, 193723593, 193755648, 193755828,
    193774953, 193787883, 193787973, 193788003, 193851993, 193916283, 193916373, 193916403,
    193948248, 193948428, 194044683, 194044773, 194044803, 194237193, 194429883, 194429973,
    194430003, 195569709, 195938814, 197447910, 197455845, 197463885, 197496075, 197496165,
    197496195, 197576190, 197576370, 197656485, 197736690, 197736870, 197897190, 197897370,
    199406256, 199422351, 201107799, 201300627, 201308451, 201308499, 201308547, 201364677,
    201388797, 201428967, 201429057, 201429087, 201621477, 201749877, 201878277, 202006677,
    202135077, 203210793, 203210853, 203218746, 203218842, 203220453, 203226783, 203233218,
    203242893, 203258988, 203259078, 203259108, 203274993, 203284578, 203307093, 203323053,
    203323233, 203339193, 203387298, 203451453, 203451633, 203515788, 203515878, 203579853,
    203580033, 203644098, 203708253, 203708433, 205129119, 205137144, 205145169, 205153194,
    205161099, 205161279, 205201224, 205201404, 205241349, 205241529, 205281474, 205281654,
    205361724, 205361904, 205602474, 205602654, 205923474, 205923654, 207111540, 207127635,
    208171341, 208813371, 209005761, 209013831, 209094081, 209134161, 209294616, 209390961,
    209455251, 209776161, 209904561, 210980277, 212023938, 212441058, 212537358, 212633658,
    212665938, 212681943, 212697858, 212698038, 212729958, 212730138, 212762238, 212778153,
    212794338, 212829513, 212858610, 212874633, 212874663, 212890638, 212922738, 212938863,
    212954838, 213019038, 213051138, 213211638, 214303224, 214431714, 214672419, 215748045,
    216197535, 216197625, 216518445, 216646845, 216839655, 218541066, 220210542, 220210722,
    220371042, 220371222, 220451292, 220451472, 220491462, 220571922, 222072663, 222072843,
    222249303, 222265308, 222281403, 222329463, 222329643, 222393798, 222393888, 222393918,
    222409803, 222419388, 222459690, 222475740, 222483771, 222483795, 222496638, 222650718,
    224223939, 224416329, 224424399, 224504649, 224544657, 224544729, 224673129, 224865819,
    224865909, 224929929, 225315129, 226390845, 226503150, 226631640, 226631730, 228269046,
    228276981, 228285021, 228317301, 228317331, 228349221, 228357231, 228397326, 228397506,
    228477621, 228718326, 228718506, 229039326, 229039506, 230203290, 230227392, 230243487,
    235139612, 235139792, 235733507, 235781612, 235781792, 235861889, 236022617, 237547478,
    237788273, 237804278, 238928099, 239313299, 239570099, 239634509, 239698499, 241335875,
    241512515, 241592675, 241592855, 241657010, 241657100, 241673015, 241722902, 241723688,
    241726331, 241737215, 241737275, 241738952, 241740365, 241741739, 241746815, 241746935,
    241746971, 241746983, 241746995, 241747007, 241759850, 241764776, 241775639, 241785260,
    241791725, 241849655, 241913930, 242106455, 243671516, 243679616, 243687746, 243687776,
    243703616, 243727646, 243727826, 243799916, 243807896, 243808076, 243888146, 243968396,
    246569183, 247018673, 247018763, 247339583, 247467983, 247660793, 248977004, 249105494,
    249346199, 250550360, 250967480, 251063780, 251160080, 251192360, 251224280, 251224460,
    251256380, 251256560, 251288660, 251304575, 251320760, 251355935, 251385032, 251401055,
    251401085, 251417060, 251449160, 251465285, 251481260, 251545460, 251577560, 251738060,
    253359341, 254403047, 255045077, 255237467, 255245537, 255325787, 255365867, 255526322,
    255622667, 255686957, 255687047, 256007867, 256136267, 256682288, 256939088, 258255464,
    258255644, 258897464, 258897644, 260535020, 260535110, 260599085, 260663330, 260727485,
    260727665, 260791820, 260855885, 260856065, 260904125, 260920130, 260971490, 261048740,
    262429241, 262493351, 262621751, 262750151, 263071361, 264901172, 264917267, 266442248,
    266442428, 266554643, 266602748, 266602928, 266683043, 266747243, 266843753, 268625414,
    269749235, 269941925, 269942015, 270134435, 270230690, 270230870, 270327125, 270391235,
    270423290, 270423470, 270455525, 270455615, 270455645, 270487490, 270487670, 270519635,
    270543755, 270551690, 270551870, 270584015, 270591905, 270596675, 270712445, 270840845,
    272092856, 272221346, 272221436, 273666032, 274308212, 274548782, 274589162, 274950032,
    276475193, 276587498, 277518719, 277839809, 277839899, 277839929, 278000174, 278000354,
    278032319, 278160719, 278281139, 278289119, 279862295, 279862475, 280038935, 280054940,
    280071035, 280119095, 280119275, 280183430, 280183520, 280183550, 280199435, 280209020,
    280440350, 281371316, 281371496, 282013316, 282013496, 282061511, 283779182, 284035982,
    285416603, 285866213, 286146923, 286443803, 288017024, 288033119, 289429700, 289429880,
    289434575, 289461800, 289461980, 289466675, 289493900, 289494080, 289498775, 289526000,
    289526180, 289530875, 289558100, 289558280, 289562975, 289590200, 289590380, 289595075,
    289622300, 289622480, 289627175, 289654400, 289654580, 289659275, 289670450, 289670630,
    289686500, 289686680, 289691375, 289702550, 289702730, 289718600, 289718780, 289723475,
    289734650, 289734830, 289750700, 289750880, 289755575, 289761293, 289761473, 289766750,
    289766930, 289772207, 289772387, 289782800, 289782980, 289787675, 289790825, 289791005,
    289793393, 289793573, 289798850, 289799030, 289804307, 289804487, 289806875, 289807055,
    289814900, 289815080, 289819775, 289821320, 289821500, 289822925, 289823105, 289825493,
    289825673, 289827740, 289827920, 289830950, 289831130, 289834160, 289834340, 289836407,
    289836587, 289838975, 289839155, 289840580, 289840760, 289841543, 289841723, 289842506,
    289842686, 289847000, 289847180, 289851173, 289851353, 289851494, 289851674, 289851875,
    289852457, 289852637, 289853420, 289853600, 289855025, 289855205, 289856309, 289857593,
    289857773, 289859198, 289859378, 289859840, 289860020, 289860803, 289860983, 289861124,
    289861304, 289863050, 289866260, 289867223, 289867544, 289868507, 289869470, 289869791,
    289870433, 289871075, 289872038, 289872680, 293186087, 293250377, 293250467, 293250497,
    293314487, 293571287, 293699687, 295337198, 295337288, 295337318, 295465508, 296781884,
    296782064, 297600629, 298065884, 298066064, 298386884, 298387064, 299125505, 299125685,
    299302145, 299318240, 299318330, 299318360, 299334245, 299382305, 299382485, 299446550,
    299462645, 300570371, 300634661, 300634751, 300634781, 300955571, 301116026, 301116206,
    301276661, 301276751, 301276781, 301340771, 301396991, 304487168, 304487348, 305129348,
    305530598, 307151834, 307537214, 307537244, 307665434, 308275865, 308757110, 308757290,
    308917835, 308917865, 309007535, 309013910, 309046145, 309046265, 309078110, 309148925,
    309158546, 309174575, 309174605, 309174635, 309187295, 309190490, 309206486, 309206498,
    309254690, 309262775, 309303035, 309303065, 309367055, 309495455, 309527690, 309816545,
    310619276, 312673952, 312674132, 312834452, 312834632, 312914837, 312914957, 313235957,
    315980939, 316109339, 316237739, 316687319, 316751339, 317329319, 317329349, 318388715,
    318388895, 318453140, 318453170, 318517115, 318517295, 318645515, 318709970, 318735440,
    318798212, 318854255, 318886355, 318966650, 319030895, 319159295, 319223450, 319223540,
    319287695, 319897736, 319897916, 320539736, 320539916, 323622023, 323750423, 324071513,
    324071603, 324071633, 324135623, 324231878, 324232058, 324392423, 324512843, 324520823,
    324874058, 326029844, 327474620, 327474800, 327603020, 327603200, 327667400, 328020320,
    328020500, 328116620, 328116800, 328212920, 328213100, 328277120, 328277300, 328309220,
    328309400, 328341500, 328357505, 328357625, 328373420, 328373600, 328408925, 328413779,
    328421735, 328434605, 328437860, 328485905, 328550105, 328694600, 328887020, 328887200,
    329208200, 330412181, 330653066, 330653096, 331519907, 331776707, 331905107, 332097797,
    332097887, 332097917, 332161907, 333991928, 335789804, 335789984, 335950304, 336030554,
    336030734, 336070814, 336070934, 336231404, 336351734, 336431984, 337651925, 337652105,
    337828565, 337844660, 337844750, 337844780, 337860665, 337908725, 337908905, 337972970,
    337989065, 337998860, 338043731, 338043755, 338050160, 338050190, 338056595, 338059745,
    338060432, 338070944, 338078945, 338094887, 338114345, 338152940, 338422505, 339417791,
    339482171, 339482201, 339674591, 339802991, 339931391, 340059791, 340083911, 340124171,
    341568992, 341569022, 341970107, 343013588, 343013768, 343655588, 343655768, 344057093,
    346738084, 346738085, 346866484, 346866485, 346994855, 346994884, 346994885, 347123284,
    347123285, 347219510, 347251654, 347251655, 347251684, 347251685, 347283709, 347283710,
    347347910, 347380054, 347380055, 347380084, 347380085, 347411930, 347412110, 347476310,
    347508365, 347508454, 347508455, 347540330, 347580545, 347598155, 347604710, 347612645,
    347636884, 347636885, 347675194, 347676748, 347676796, 347676844, 347681689, 347684989,
    347694529, 347700814, 347700844, 347700874, 347700904, 347700934, 347708944, 347716861,
    347716885, 347716909, 347724994, 347726554, 347741044, 347752234, 347757094, 347765164,
    347765165, 347777914, 347781109, 347789194, 347797105, 347797129, 347803594, 347805244,
    347829274, 347854954, 347880634, 347893564, 347893565, 347893654, 347893655, 347925529,
    347925709, 347925710, 347957602, 347957674, 347989729, 347989909, 347989910, 348021964,
    348022054, 348022084, 348053929, 348054109, 348086074, 348118129, 348118309, 348150364,
    348150454, 348150455, 348150484, 348150485, 348182329, 348182509, 348214474, 348278764,
    348278884, 348278885, 348342874, 348407164, 348407254, 348471274, 348535564, 348599674,
    348663964, 348664084, 349675390, 351553591, 351561526, 351601600, 351601666, 351641776,
    351665866, 351682051, 351730066, 351762256, 351762346, 351762376, 351794266, 352002871,
    352003051, 352324051, 353126917, 353126947, 353528032, 354828358, 354892738, 354892768,
    355213558, 355341958, 355470358, 355494478, 355534648, 355534738, 356369158, 356915134,
    356915314, 357091774, 357107869, 357107959, 357107989, 357171934, 357172114, 357236179,
    357252274, 357262069, 357306940, 357306964, 357313369, 357313399, 357319804, 357322954,
    357323641, 357334153, 357358096, 357364669, 357377554, 357416149, 359234725, 359242825,
    359250925, 359258875, 359266765, 359266795, 359266825, 359298925, 359306905, 359307085,
    359347165, 359347255, 359387155, 359387335, 359467405, 359467585, 359547655, 359547835,
    359708155, 359708335, 361217221, 361233316, 363111442, 363119512, 363199762, 363239842,
    363560932, 363561022, 363561052, 364010242, 365045761, 365085958, 365326753, 365326843,
    365326873, 365455063, 366723256, 366884044, 366935344, 366939994, 366940150, 366940198,
    366941614, 366944899, 366948154, 366948184, 366951319, 366954454, 366956044, 366956224,
    366957739, 366961024, 366964015, 366964027, 366964039, 366964051, 366964063, 366964075,
    366964087, 366964099, 366964111, 366964123, 366964135, 366964147, 366964159, 366964219,
    366964279, 366967294, 366972094, 366980074, 366980134, 366988144, 366992974, 366996139,
    366996319, 367004194, 367005814, 367012324, 367012414, 367028239, 367028419, 367044334,
    367060339, 367060519, 367076524, 367076614, 367092439, 367092619, 367116544, 367124539,
    367156639, 367156819, 367172734, 367220839, 367221019, 367317139, 367317319, 367413439,
    367413619, 367670239, 367670419, 367734439, 367734619, 367862839, 367863019, 367927039,
    367927219, 368922505, 368938600, 370816876, 370824796, 370864813, 370880926, 370905046,
    370945216, 370945306, 371009326, 371105581, 371105761, 371266126, 371587216, 371587336,
    371779726, 372791242, 372903547, 373160347, 374669443, 374677528, 374717473, 374757598,
    374757778, 374878153, 375118723, 375118903, 375439723, 375439903, 376178344, 376178524,
    376242769, 376242799, 376306744, 376306924, 376435144, 376499599, 376525069, 376587841,
    376643884, 376675984, 376756279, 376820524, 376948924, 377013079, 377013169, 377077324,
    377623210, 377751610, 377880010, 378329590, 378393610, 378971620, 380496526, 380608831,
    380865631, 382358602, 382374727, 382382662, 382422802, 382487002, 382503007, 382503187,
    382551202, 382583392, 382583482, 382583512, 382615402, 382663507, 382663687, 382824007,
    382824187, 384308971, 384333073, 384349168, 386201764, 386203264, 386208109, 386211229,
    386211337, 386211385, 386211409, 386211433, 386214454, 386219218, 386219266, 386219314,
    386219374, 386220949, 386227384, 386227414, 386227444, 386227474, 386227504, 386235364,
    386240134, 386243329, 386251414, 386259325, 386259337, 386259349, 386259529, 386265814,
    386267464, 386283514, 386291434, 386291494, 386307529, 386315614, 386323549, 386323729,
    386355784, 386355874, 386355904, 386368534, 386387749, 386387929, 386419822, 386419894,
    386484184, 386484274, 386484304, 386548294, 386580349, 386580529, 386676694, 386869384,
    386869474, 386869504, 387061894, 388201810, 388442605, 388442695, 388442725, 388570915,
    390056011, 390063961, 390071911, 390080011, 390088051, 390088141, 390104011, 390128017,
    390128041, 390128221, 390136111, 390168211, 390200311, 390208291, 390208471, 390288541,
    390288721, 390529291, 390529471, 390850291, 390850471, 392038357, 392054452, 393932578,
    393940552, 393940600, 393940648, 394020898, 394060978, 394189378, 394221433, 394221613,
    394382068, 394382158, 394382188, 394702978, 395441734, 395634289, 395634409, 395698354,
    395839789, 395859040, 395859088, 395865319, 395874898, 395874994, 395891089, 395891179,
    395907094, 395955130, 395955334, 396003394, 396019399, 396035494, 396211954, 396212134,
    396950575, 397769320, 397913755, 398234575, 398234755, 398555575, 399358531, 399358651,
    401060062, 401124352, 401124442, 401124472, 401188462, 401445262, 401573662, 403572181,
    403612378, 405461047, 405461308, 405461368, 405461569, 405461629, 405461689, 405461890,
    405461950, 405462010, 405462211, 405462271, 405462331, 405462532, 405462592, 405462652,
    405462853, 405462913, 405462973, 405463174, 405463234, 405463294, 405463495, 405463555,
    405463615, 405463816, 405463876, 405463936, 405464137, 405464197, 405464257, 405464458,
    405464518, 405464578, 405464779, 405464839, 405464899, 405465100, 405465160, 405465220,
    405465421, 405465481, 405465541, 405465742, 405465802, 405465862, 405465922, 405466063,
    405466123, 405466183, 405466384, 405466444, 405466504, 405466564, 405466705, 405466765,
    405466825, 405466885, 405467026, 405467086, 405467146, 405467206, 405467347, 405467407,
    405467467, 405467527, 405467668, 405467728, 405467788, 405467848, 405467989, 405468049,
    405468109, 405468169, 405468310, 405468370, 405468430, 405468490, 405468631, 405468691,
    405468751, 405468811, 405468952, 405469012, 405469072, 405469132, 405469273, 405469333,
    405469393, 405469453, 405469594, 405469654, 405469714, 405469774, 405469915, 405469975,
    405470035, 405470095, 405470236, 405470296, 405470356, 405470416, 405470557, 405470617,
    405470677, 405470737, 405470878, 405470938, 405470998, 405471058, 405471199, 405471259,
    405471319, 405471379, 405471520, 405471580, 405471640, 405471700, 405471841, 405471901,
    405471961, 405472021, 405472162, 405472222, 405472282, 405472342, 405472483, 405472543,
    405472603, 405472663, 405472804, 405472864, 405472924, 405472984, 405473125, 405473185,
    405473245, 405473305, 405473446, 405473506, 405473566, 405473626, 405473767, 405473827,
    405473887, 405473947, 405474088, 405474148, 405474208, 405474268, 405474409, 405474469,
    405474529, 405474589, 405474730, 405474790, 405474850, 405474910, 405475051, 405475111,
    405475171, 405475231, 405475372, 405475432, 405475492, 405475552, 405475693, 405475753,
    405475813, 405475873, 405476014, 405476074, 405476134, 405476194, 405476335, 405476395,
    405476455, 405476515, 405476575, 405476656, 405476716, 405476776, 405476836, 405476896,
    405476977, 405477037, 405477097, 405477157, 405477217, 405477298, 405477358, 405477418,
    405477478, 405477619, 405477679, 405477739, 405477799, 405477859, 405477940, 405478000,
    405478060, 405478120, 405478180, 405478261, 405478321, 405478381, 405478441, 405478501,
    405478582, 405478642, 405478702, 405478762, 405478822, 405478903, 405478963, 405479023,
    405479083, 405479143, 405479224, 405479284, 405479344, 405479404, 405479464, 405479545,
    405479605, 405479665, 405479725, 405479785, 405479866, 405479926, 405479986, 405480046,
    405480106, 405480187, 405480247, 405480307, 405480367, 405480427, 405480508, 405480568,
    405480628, 405480688, 405480748, 405480829, 405480889, 405480949, 405481009, 405481069,
    405481150, 405481210, 405481270, 405481330, 405481390, 405481471, 405481531, 405481591,
    405481651, 405481711, 405481792, 405481852, 405481912, 405481972, 405482032, 405482113,
    405482173, 405482233, 405482293, 405482353, 405482434, 405482494, 405482554, 405482614,
    405482674, 405482755, 405482815, 405482875, 405482935, 405482995, 405483076, 405483136,
    405483196, 405483256, 405483316, 405483397, 405483457, 405483517, 405483577, 405483637,
    405483718, 405483778, 405483838, 405483898, 405483958, 405484039, 405484099, 405484159,
    405484219, 405484279, 405484360, 405484420, 405484480, 405484540, 405484600, 405484681,
    405484741, 405484801, 405484861, 405484921, 405485002, 405485062, 405485122, 405485182,
    405485242, 405485323, 405485383, 405485443, 405485503, 405485563, 405485644, 405485704,
    405485764, 405485824, 405485884, 405485965, 405486025, 405486085, 405486145, 405486205,
    405486286, 405486346, 405486406, 405486466, 405486526, 405486607, 405486667, 405486727,
    405486787, 405486847, 405486928, 405486988, 405487048, 405487108, 405487168, 405487249,
    405487309, 405487369, 405487429, 405487489, 405487570, 405487630, 405487690, 405487750,
    405487810, 405487891, 405487951, 405488011, 405488071, 405488131, 405488212, 405488272,
    405488332, 405488392, 405488452, 405488533, 405488593, 405488653, 405488713, 405488773,
    405488854, 405488914, 405488974, 405489034, 405489094, 405489175, 405489235, 405489295,
    405489355, 405489415, 405489496, 405489556, 405489616, 405489676, 405489736, 405489817,
    405489877, 405489937, 405489997, 405490057, 405490138, 405490198, 405490258, 405490318,
    405490378, 405490459, 405490519, 405490579, 405490639, 405490699, 405490780, 405490840,
    405490900, 405490960, 405491101, 405491161, 405491221, 405491281, 405491422, 405491482,
    405491602, 405491743, 405491803, 405491923, 405492064, 405492124, 405492244, 405492385,
    405492445, 405492565, 405492706, 405492766, 405492886, 405493027, 405493087, 405493207,
    405493348, 405493408, 405493528, 405493669, 405493729, 405493849, 405493990, 405494050,
    405494170, 405494311, 405494371, 405494491, 405494632, 405494692, 405494812, 405494953,
    405495013, 405495133, 405495274, 405495334, 405495454, 405495595, 405495655, 405495775,
    405495916, 405495976, 405496096, 405496237, 405496297, 405496417, 405496558, 405496618,
    405496738, 405496879, 405496939, 405497059, 405497200, 405497380, 405497521, 405497701,
    405497842, 405498022, 405498163, 405498343, 405498484, 405498664, 405498805, 405498985,
    405499126, 405499306, 405499447, 405499627, 405499768, 405499948, 405500089, 405500269,
    405500410, 405500590, 405500731, 405500911, 405501052, 405501232, 405501373, 405501553,
    405501694, 405501874, 405502015, 405502195, 405502336, 405502516, 405502657, 405502837,
    405502978, 405503158, 405503299, 405503479, 405503620, 405503800, 405503941, 405504121,
    405504262, 405504442, 405504583, 405504763, 405504904, 405505084, 405505225, 405505405,
    405505546, 405505726, 405505867, 405506047, 405506188, 405506368, 405506509, 405506689,
    405506830, 405507010, 405507151, 405507331, 405507472, 405507652, 405507793, 405507973,
    405508114, 405508294, 405508435, 405508615, 405508756, 405508936, 405509077, 405509257,
    405509398, 405509578, 405509719, 405509899, 405510040, 405510220, 405510361, 405510541,
    405510682, 405510862, 405511003, 405511183, 405511324, 405511504, 405511645, 405511966,
    405512146, 405512287, 405512467, 405512608, 405512788, 405512929, 405513109, 405513250,
    405513430, 405513571, 405513751, 405513892, 405514072, 405514213, 405514393, 405514534,
    405514714, 405514855, 405515035, 405515176, 405515356, 405515497, 405515677, 405515818,
    405515998, 405516139, 405516319, 405516460, 405516640, 405516781, 405516961, 405517102,
    405517282, 405517423, 405517744, 405517924, 405518065, 405518245, 405518386, 405518566,
    405518707, 405518887, 405519028, 405519208, 405519349, 405519529, 405519670, 405519850,
    405519991, 405520171, 405520312, 405520492, 405520633, 405520813, 405520954, 405521275,
    405521596, 405521776, 405521917, 405522238, 405522559, 405522739, 405522880, 405523201,
    405523522, 405523843, 405524164, 405524485, 405524806, 405524986, 405525127, 405525307,
    405525448, 405525628, 405525769, 405525949, 405526090, 405526270, 405526411, 405526732,
    405526912, 405527053, 405527233, 405527374, 405527554, 405527695, 405528016, 405528196,
    405528337, 405528517, 405528658, 405528979, 405529159, 405529621, 405529801, 405529942,
    405530584, 405530764, 405530905, 405531226, 405531406, 405531547, 405531868, 405532048,
    405532189, 405532369, 405532510, 405533152, 405533332, 405533473, 405533794, 405534115,
    405534295, 405534436, 405534757, 405534937, 405535399, 405535579, 405536362, 405536542,
    405536683, 405536863, 405537325, 405537646, 405537967, 405538609, 405538789, 405539572,
    405539893, 405540214, 405540535, 405540715, 405540856, 405541036, 405541498, 405541819,
    405541999, 405542140, 405542782, 405542962, 405543424, 405543745, 405544066, 405544246,
    405544387, 405545029, 405545350, 405545530, 405545671, 405545992, 405546634, 405546814,
    405546955, 405547276, 405547597, 405548239, 405548419, 405549202, 405549382, 405550165,
    405550345, 405550807, 405550987, 405551449, 405554659, 405554839, 405555943, 405556264,
    405556906, 405557227, 405557869, 405558511, 405559153, 405559333, 405559474, 405560116,
    405560296, 405560758, 405561079, 405561259, 405561400, 405562042, 405562684, 405562864,
    405563005, 405564289, 405565252, 405565432, 405565573, 405567499, 405567679, 405569104,
    405569746, 405570709, 405570889, 405572956, 405573919, 405574099, 405574882, 405575524,
    405576166, 405576346, 405577129, 405578734, 405578914, 405579055, 405580018, 405580339,
    405580519, 405583549, 405586759, 405586939, 405587080, 405588043, 405589969, 405591574,
    405594142, 405594784, 405594964, 405597352, 405597532, 405599599, 405602809, 405602989,
    405605056, 405606340, 405607624, 405608266, 405608446, 405610834, 405611014, 405615649,
    405618859, 405619039, 405624958, 405626242, 405628489, 405629452, 405629632, 405631699,
    405634909, 405635089, 405637156, 405640366, 405640546, 405641329, 405647749, 405650959,
    405651139, 405654169, 405658342, 405663799, 405667009, 405667189, 405679849, 405683059,
    405683239, 405695899, 405699109, 405699289, 405701356, 405711949, 405715159, 405715339,
    405722542, 405727999, 405731209, 405731389, 405744049, 405747259, 405747439, 405765556,
    405776149, 405779359, 405779539, 405786742, 405808249, 405811459, 405811639, 405840349,
    405843559, 405843739, 405872449, 405875659, 405875839, 405904549, 405907759, 405907939,
    405936649, 405939859, 405940039, 405968749, 405971959, 405972139, 406000849, 406065049,
    406129249, 406193449, 406257649, 406321849, 406386049, 406450249, 407448925, 407465020,
    409343146, 409351216, 409391233, 409431466, 409471546, 409728346, 409792636, 409792726,
    409792756, 409856746, 411317662, 411429967, 411558457, 411558547, 411558577, 413179738,
    413195863, 413203774, 413203798, 413243938, 413324143, 413324323, 413404528, 413404618,
    413404648, 413436538, 413645143, 413645323, 413966143, 413966323, 415098211, 415102849,
    415106104, 415106164, 415115764, 415122046, 415122070, 415122094, 415122118, 415122142,
    415122166, 415122274, 415138204, 415154149, 415154209, 415170304, 415205569, 415218364,
    415218544, 415234504, 415266604, 415282699, 415282789, 415282819, 415298704, 415362904,
    415475164, 415475344, 417056500, 417112630, 417136750, 417176920, 417177040, 417241030,
    417337285, 417337465, 417369430, 417497830, 417818920, 417819010, 417883030, 419022946,
    419135251, 420066427, 420708607, 420949177, 420989557, 421350427, 422345893, 422474383,
    422474473, 424496836, 424728034, 424729684, 424729744, 424734529, 424737601, 424737625,
    424737649, 424737673, 424737697, 424737721, 424737829, 424741024, 424745734, 424745794,
    424745842, 424747369, 424753654, 424753684, 424753714, 424753744, 424753774, 424761784,
    424769749, 424777738, 424777834, 424779394, 424785769, 424785949, 424793884, 424805074,
    424809934, 424818004, 424818094, 424818124, 424833949, 424842034, 424849969, 424850149,
    424856434, 424882114, 424914169, 424914349, 424933474, 424946404, 424946494, 424946524,
    425010514, 425074804, 425074894, 425074924, 425106769, 425106949, 425203204, 425203294,
    425203324, 425395714, 425588404, 425588494, 425588524, 426728230, 427097335, 428606431,
    428614366, 428622406, 428654596, 428654686, 428654716, 428734711, 428734891, 428815006,
    428895211, 428895391, 429055711, 429055891, 430564777, 430580872, 432266320, 432459148,
    432466972, 432467020, 432467068, 432523198, 432547318, 432587488, 432587578, 432587608,
    432779998, 432908398, 433036798, 433165198, 433293598, 434369314, 434369374, 434377267,
    434377363, 434378974, 434385304, 434391739, 434401414, 434417509, 434417599, 434417629,
    434433514, 434443099, 434465614, 434481574, 434481754, 434497714, 434545819, 434609974,
    434610154, 434674309, 434674399, 434738374, 434738554, 434802619, 434866774, 434866954,
    436287640, 436295665, 436303690, 436311715, 436319620, 436319800, 436359745, 436359925,
    436399870, 436400050, 436439995, 436440175, 436520245, 436520425, 436760995, 436761175,
    437081995, 437082175, 438270061, 438286156, 439329862, 439971892, 440164282, 440172352,
    440252602, 440292682, 440453137, 440549482, 440613772, 440934682, 441063082, 442138798,
    443182459, 443599579, 443695879, 443792179, 443824459, 443840464, 443856379, 443856559,
    443888479, 443888659, 443920759, 443936674, 443952859, 443988034, 444017131, 444033154,
    444033184, 444049159, 444081259, 444097384, 444113359, 444177559, 444209659, 444370159,
    445975345, 445991440, 446232145, 447869716, 447877636, 447917653, 447933766, 447957886,
    447998056, 447998146, 447998176, 448190566, 448318966, 448575766, 448832566, 449844082,
    449956387, 451706233, 451714183, 451722283, 451730323, 451730413, 451730443, 451746283,
    451770313, 451770493, 451810483, 451842583, 451850563, 451850743, 451930813, 451930993,
    452011063, 452011243, 452171563, 452171743, 453618211, 453618997, 453621640, 453622786,
    453622810, 453622882, 453622906, 453626104, 453626164, 453626776, 453629239, 453629269,
    453629299, 453629329, 453630847, 453630943, 453631912, 453632524, 453632584, 453634165,
    453634261, 453634555, 453635674, 453637048, 453638848, 453638896, 453638944, 453639004,
    453639541, 453642064, 453642124, 453642184, 453642196, 453642208, 453642220, 453642232,
    453642244, 453642256, 453642280, 453642292, 453642304, 453642316, 453645364, 453645424,
    453646897, 453646993, 453647320, 453648514, 453649813, 453651784, 453655039, 453655159,
    453658204, 453660085, 453661354, 453664624, 453667744, 453667924, 453670357, 453670948,
    453671044, 453674194, 453677464, 453680569, 453680629, 453686986, 453687034, 453690304,
    453693424, 453693604, 453696724, 453699874, 453731989, 453744784, 453744964, 453751234,
    453760924, 453793024, 453809119, 453809209, 453809239, 453821824, 453825124, 453889324,
    454001584, 454001764, 455382460, 455574850, 455582920, 455663170, 455703178, 455703250,
    455831650, 456024340, 456024430, 456088450, 456473650, 457549366, 457661671, 457790161,
    457790251, 459427567, 459435502, 459443542, 459475822, 459475852, 459507742, 459515752,
    459555847, 459556027, 459636142, 459876847, 459877027, 460197847, 460198027, 461361811,
    461385913, 461402008, 465214452, 465238554, 465254649, 467132850, 467140785, 467148825,
    467181105, 467181135, 467213025, 467221035, 467261130, 467261310, 467341425, 467582130,
    467582310, 467903130, 467903310, 469107291, 469219596, 469348086, 469348176, 470793027,
    470985417, 470993487, 471073737, 471113745, 471113817, 471242217, 471434907, 471434997,
    471499017, 471884217, 472881420, 472882206, 472884849, 472885995, 472886019, 472886091,
    472886115, 472889313, 472889373, 472889985, 472892448, 472892478, 472892508, 472892538,
    472894056, 472894152, 472895121, 472895733, 472895793, 472897374, 472897470, 472897764,
    472898883, 472900257, 472902057, 472902105, 472902153, 472902213, 472902750, 472905273,
    472905333, 472905393, 472905405, 472905417, 472905429, 472905441, 472905453, 472905465,
    472905489, 472905501, 472905513, 472905525, 472908573, 472908633, 472910106, 472910202,
    472910529, 472911723, 472913022, 472914993, 472918248, 472918368, 472921413, 472923294,
    472924563, 472927833, 472930953, 472931133, 472933566, 472934157, 472934253, 472937403,
    472940673, 472943778, 472943838, 472950195, 472950243, 472953513, 472956633, 472956813,
    472959933, 472963083, 472995198, 473007993, 473008173, 473014443, 473024133, 473056233,
    473072328, 473072418, 473072448, 473085033, 473088333, 473152533, 473264793, 473264973,
    474822084, 474830034, 474838134, 474846174, 474846264, 474846294, 474862134, 474886164,
    474886344, 474926334, 474958434, 474966414, 474966594, 475046664, 475046844, 475126914,
    475127094, 475287414, 475287594, 476812575, 476924880, 478690851, 478698771, 478738788,
    478754901, 478779021, 478819191, 478819281, 478819311, 479011701, 479140101, 479396901,
    479653701, 480649122, 480665217, 480905922, 482479062, 482514453, 482517738, 482519205,
    482519229, 482519253, 482519277, 482519301, 482519325, 482519433, 482521023, 482524158,
    482527233, 482527263, 482527293, 482527323, 482527353, 482530578, 482533863, 482535303,
    482536998, 482540133, 482543298, 482543358, 482543418, 482543430, 482543442, 482543454,
    482543466, 482543478, 482543490, 482543502, 482543514, 482543526, 482543550, 482543562,
    482551353, 482552973, 482559483, 482559573, 482559603, 482565813, 482567403, 482575398,
    482575578, 482578653, 482583453, 482591493, 482607498, 482607678, 482623683, 482623773,
    482623803, 482639574, 482639598, 482639778, 482655693, 482671698, 482671878, 482695803,
    482703798, 482703978, 482719821, 482735898, 482736078, 482752083, 482752173, 482800098,
    482800278, 482896398, 482896578, 482992698, 482992878, 483249498, 483249678, 483313698,
    483313878, 483442098, 483442278, 483506298, 483506478, 484477662, 484517859, 484886964,
    486395985, 486404055, 486484305, 486524385, 486684840, 486685020, 486781185, 486845475,
    486845565, 486845595, 487166385, 487294785, 488354406, 488370501, 489413982, 489414162,
    490055982, 490056162, 491693538, 491693628, 491757603, 491757783, 491821848, 491886003,
    491886183, 491950338, 491950428, 491950458, 492014403, 492014583, 492062643, 492078648,
    492094743, 492126843, 492130008, 492207258, 493587759, 493587849, 493587879, 493651869,
    493780269, 493908669, 494037069, 495546090, 497600766, 497600946, 497713161, 497761266,
    497761446, 497841561, 497905761, 498002271, 499783932, 500907753, 501100443, 501100533,
    501292953, 501389208, 501389388, 501485643, 501549753, 501581808, 501581988, 501614043,
    501614133, 501614163, 501646008, 501646188, 501678153, 501702273, 501710208, 501710388,
    501742533, 501750423, 501755193, 501870963, 501999363, 503251374, 503379864, 503379954,
    504824550, 505466730, 505707300, 505747680, 506108550, 507633711, 507746016, 509519907,
    509576037, 509600157, 509640327, 509640447, 509704437, 509800692, 509800872, 509832837,
    509961237, 510282327, 510282417, 510346437, 511414260, 511418898, 511422153, 511422213,
    511431813, 511438095, 511438119, 511438143, 511438167, 511438191, 511438215, 511438323,
    511454253, 511470198, 511470258, 511486353, 511521618, 511534413, 511534593, 511550553,
    511582653, 511598748, 511598838, 511598868, 511614753, 511678953, 511791213, 511791393,
    513348429, 513364554, 513372465, 513372489, 513412629, 513492834, 513493014, 513573219,
    513573309, 513573339, 513605229, 513813834, 513814014, 514134834, 514135014, 515338995,
    515451300, 515579790, 515579880, 515579910, 517217121, 517225191, 517265208, 517305441,
    517345521, 517602321, 517666611, 517666701, 517666731, 517730721, 519175542, 519191637,
    521040306, 521040507, 521040627, 521040828, 521040888, 521040948, 521041149, 521041209,
    521041269, 521041470, 521041530, 521041590, 521041791, 521041851, 521041911, 521042112,
    521042172, 521042232, 521042433, 521042493, 521042553, 521042754, 521042814, 521042874,
    521043075, 521043135, 521043195, 521043396, 521043456, 521043516, 521043717, 521043777,
    521043837, 521044038, 521044098, 521044158, 521044359, 521044419, 521044479, 521044680,
    521044740, 521044800, 521045001, 521045061, 521045121, 521045322, 521045382, 521045442,
    521045502, 521045643, 521045703, 521045763, 521045823, 521045964, 521046024, 521046084,
    521046144, 521046285, 521046345, 521046405, 521046465, 521046606, 521046666, 521046726,
    521046786, 521046927, 521046987, 521047047, 521047107, 521047248, 521047308, 521047368,
    521047428, 521047569, 521047629, 521047689, 521047749, 521047890, 521047950, 521048010,
    521048070, 521048211, 521048271, 521048331, 521048391, 521048532, 521048592, 521048652,
    521048712, 521048853, 521048913, 521048973, 521049033, 521049174, 521049234, 521049294,
    521049354, 521049495, 521049555, 521049615, 521049675, 521049816, 521049876, 521049936,
    521049996, 521050137, 521050197, 521050257, 521050317, 521050458, 521050518, 521050578,
    521050638, 521050779, 521050839, 521050899, 521050959, 521051100, 521051160, 521051220,
    521051280, 521051421, 521051481, 521051541, 521051601, 521051742, 521051802, 521051862,
    521051922, 521052063, 521052123, 521052183, 521052243, 521052384, 521052444, 521052504,
    521052564, 521052705, 521052765, 521052825, 521052885, 521053026, 521053086, 521053146,
    521053206, 521053347, 521053407, 521053467, 521053527, 521053668, 521053728, 521053788,
    521053848, 521053989, 521054049, 521054109, 521054169, 521054310, 521054370, 521054430,
    521054490, 521054631, 521054691, 521054751, 521054811, 521054952, 521055012, 521055072,
    521055132, 521055273, 521055333, 521055393, 521055453, 521055594, 521055654, 521055714,
    521055774, 521055915, 521055975, 521056035, 521056095, 521056236, 521056296, 521056356,
    521056416, 521056557, 521056617, 521056677, 521056737, 521056797, 521056878, 521056938,
    521056998, 521057058, 521057118, 521057199, 521057259, 521057319, 521057379, 521057439,
    521057520, 521057580, 521057640, 521057700, 521057760, 521057841, 521057901, 521057961,
    521058021, 521058081, 521058162, 521058222, 521058282, 521058342, 521058402, 521058483,
    521058543, 521058603, 521058663, 521058723, 521058804, 521058864, 521058924, 521058984,
    521059044, 521059125, 521059185, 521059245, 521059305, 521059365, 521059446, 521059506,
    521059566, 521059626, 521059686, 521059767, 521059827, 521059887, 521059947, 521060007,
    521060088, 521060148, 521060208, 521060268, 521060328, 521060409, 521060469, 521060529,
    521060589, 521060649, 521060730, 521060790, 521060850, 521060910, 521060970, 521061051,
    521061111, 521061171, 521061231, 521061291, 521061372, 521061432, 521061492, 521061552,
    521061612, 521061693, 521061753, 521061813, 521061873, 521061933, 521062014, 521062074,
    521062134, 521062194, 521062254, 521062335, 521062395, 521062455, 521062515, 521062575,
    521062656, 521062716, 521062776, 521062836, 521062896, 521062977, 521063037, 521063097,
    521063157, 521063217, 521063298, 521063358, 521063418, 521063478, 521063538, 521063619,
    521063679, 521063739, 521063799, 521063859, 521063940, 521064000, 521064060, 521064120,
    521064180, 521064261, 521064321, 521064381, 521064441, 521064501, 521064582, 521064642,
    521064702, 521064762, 521064822, 521064903, 521064963, 521065023, 521065083, 521065143,
    521065224, 521065284, 521065344, 521065404, 521065464, 521065545, 521065605, 521065665,
    521065725, 521065785, 521065866, 521065926, 521065986, 521066046, 521066106, 521066187,
    521066247, 521066307, 521066367, 521066427, 521066508, 521066568, 521066628, 521066688,
    521066748, 521066829, 521066889, 521066949, 521067009, 521067069, 521067150, 521067210,
    521067270, 521067330, 521067390, 521067471, 521067531, 521067591, 521067651, 521067711,
    521067792, 521067852, 521067912, 521067972, 521068032, 521068113, 521068173, 521068233,
    521068293, 521068353, 521068434, 521068494, 521068554, 521068614, 521068674, 521068755,
    521068815, 521068875, 521068935, 521068995, 521069076, 521069136, 521069196, 521069256,
    521069316, 521069397, 521069457, 521069517, 521069577, 521069637, 521069718, 521069778,
    521069838, 521069898, 521069958, 521070039, 521070099, 521070159, 521070219, 521070360,
    521070420, 521070480, 521070540, 521070681, 521070741, 521070861, 521071002, 521071062,
    521071182, 521071323, 521071383, 521071503, 521071644, 521071704, 521071824, 521071965,
    521072025, 521072145, 521072286, 521072346, 521072466, 521072607, 521072667, 521072787,
    521072928, 521072988, 521073108, 521073249, 521073309, 521073429, 521073570, 521073630,
    521073750, 521073891, 521073951, 521074071, 521074212, 521074272, 521074392, 521074533,
    521074593, 521074713, 521074854, 521074914, 521075034, 521075175, 521075235, 521075355,
    521075496, 521075556, 521075676, 521075817, 521075877, 521075997, 521076138, 521076198,
    521076318, 521076459, 521076639, 521076780, 521076960, 521077101, 521077281, 521077422,
    521077602, 521077743, 521077923, 521078064, 521078244, 521078385, 521078565, 521078706,
    521078886, 521079027, 521079207, 521079348, 521079528, 521079669, 521079849, 521079990,
    521080170, 521080311, 521080491, 521080632, 521080812, 521080953, 521081133, 521081274,
    521081454, 521081595, 521081775, 521081916, 521082096, 521082237, 521082417, 521082558,
    521082738, 521082879, 521083059, 521083200, 521083380, 521083521, 521083701, 521083842,
    521084022, 521084163, 521084343, 521084484, 521084664, 521084805, 521084985, 521085126,
    521085306, 521085447, 521085627, 521085768, 521085948, 521086089, 521086269, 521086410,
    521086590, 521086731, 521086911, 521087052, 521087232, 521087373, 521087553, 521087694,
    521087874, 521088015, 521088195, 521088336, 521088516, 521088657, 521088837, 521088978,
    521089158, 521089299, 521089479, 521089620, 521089800, 521089941, 521090121, 521090262,
    521090442, 521090583, 521090763, 521090904, 521091225, 521091405, 521091546, 521091726,
    521091867, 521092047, 521092188, 521092368, 521092509, 521092689, 521092830, 521093010,
    521093151, 521093331, 521093472, 521093652, 521093793, 521093973, 521094114, 521094294,
    521094435, 521094615, 521094756, 521094936, 521095077, 521095257, 521095398, 521095578,
    521095719, 521095899, 521096040, 521096220, 521096361, 521096541, 521096682, 521097003,
    521097183, 521097324, 521097504, 521097645, 521097825, 521097966, 521098146, 521098287,
    521098467, 521098608, 521098788, 521098929, 521099109, 521099250, 521099430, 521099571,
    521099751, 521099892, 521100072, 521100213, 521100534, 521100855, 521101035, 521101176,
    521101497, 521101818, 521101998, 521102139, 521102460, 521102781, 521103102, 521103423,
    521103744, 521104065, 521104245, 521104386, 521104566, 521104707, 521104887, 521105028,
    521105208, 521105349, 521105529, 521105670, 521105991, 521106171, 521106312, 521106492,
    521106633, 521106813, 521106954, 521107275, 521107455, 521107596, 521107776, 521107917,
    521108238, 521108418, 521108880, 521109060, 521109201, 521109843, 521110023, 521110164,
    521110485, 521110665, 521110806, 521111127, 521111307, 521111448, 521111628, 521111769,
    521112411, 521112591, 521112732, 521113053, 521113374, 521113554, 521113695, 521114016,
    521114196, 521114658, 521114838, 521115621, 521115801, 521115942, 521116122, 521116584,
    521116905, 521117226, 521117868, 521118048, 521118831, 521119152, 521119473, 521119794,
    521119974, 521120115, 521120295, 521120757, 521121078, 521121258, 521121399, 521122041,
    521122221, 521122683, 521123004, 521123325, 521123505, 521123646, 521124288, 521124609,
    521124789, 521124930, 521125251, 521125893, 521126073, 521126214, 521126535, 521126856,
    521127498, 521127678, 521128461, 521128641, 521129424, 521129604, 521130066, 521130246,
    521130708, 521133918, 521134098, 521135202, 521135523, 521136165, 521136486, 521137128,
    521137770, 521138412, 521138592, 521138733, 521139375, 521139555, 521140017, 521140338,
    521140518, 521140659, 521141301, 521141943, 521142123, 521142264, 521143548, 521144511,
    521144691, 521144832, 521146758, 521146938, 521148363, 521149005, 521149968, 521150148,
    521152215, 521153178, 521153358, 521154141, 521154783, 521155425, 521155605, 521156388,
    521157993, 521158173, 521158314, 521159277, 521159598, 521159778, 521162808, 521166018,
    521166198, 521166339, 521167302, 521169228, 521170833, 521173401, 521174043, 521174223,
    521176611, 521176791, 521178858, 521182068, 521182248, 521184315, 521185599, 521186883,
    521187525, 521187705, 521190093, 521190273, 521194908, 521198118, 521198298, 521204217,
    521205501, 521207748, 521208711, 521208891, 521210958, 521214168, 521214348, 521216415,
    521219625, 521219805, 521220588, 521227008, 521230218, 521230398, 521233428, 521237601,
    521243058, 521246268, 521246448, 521259108, 521262318, 521262498, 521275158, 521278368,
    521278548, 521280615, 521291208, 521294418, 521294598, 521301801, 521307258, 521310468,
    521310648, 521323308, 521326518, 521326698, 521344815, 521355408, 521358618, 521358798,
    521366001, 521387508, 521390718, 521390898, 521419608, 521422818, 521422998, 521451708,
    521454918, 521455098, 521483808, 521487018, 521487198, 521515908, 521519118, 521519298,
    521548008, 521551218, 521551398, 521580108, 521644308, 521708508, 521772708, 521836908,
    521901108, 521965308, 522029508, 523004082, 523044279, 524922555, 524930475, 524986605,
    525010725, 525050895, 525050985, 525051015, 525115005, 525371805, 525500205, 526880826,
    526896921, 527137626, 528759147, 528775122, 528783057, 528791097, 528823287, 528823377,
    528823407, 528855297, 528903402, 528903582, 528983697, 529224402, 529224582, 529545402,
    529545582, 530677266, 530677362, 530682258, 530685363, 530685423, 530695023, 530701353,
    530701461, 530701485, 530701509, 530701533, 530701557, 530701581, 530707788, 530717367,
    530717463, 530733558, 530733648, 530733678, 530749563, 530797599, 530797623, 530797803,
    530813763, 530845863, 530861868, 530877963, 530942163, 531054423, 531054603, 531728889,
    531793179, 531793269, 531793299, 532114089, 532274544, 532274724, 532435179, 532435269,
    532435299, 532499289, 532555509, 535645686, 535645866, 536287686, 536287866, 538053552,
    538294347, 538310352, 539434263, 539434353, 539434383, 539626773, 539819463, 539819553,
    539819583, 539915628, 539915808, 540011973, 540076263, 540076353, 540076383, 540108228,
    540108408, 540140373, 540166053, 540172428, 540172608, 540204663, 540204753, 540204783,
    540228693, 540236628, 540236808, 540243093, 540268773, 540276843, 540294453, 541777794,
    543832470, 543832650, 543992970, 543993150, 544073355, 544073475, 544394475, 547139457,
    547267857, 547396257, 547845837, 547909857, 548487837, 548487867, 549547233, 549547413,
    549611658, 549611688, 549675633, 549675813, 549804033, 549868488, 549893958, 549956730,
    550012773, 550044873, 550125168, 550189413, 550317813, 550381968, 550382058, 550446213,
    551056434, 551890974, 551898867, 551899059, 551939004, 551979129, 552099684, 552340254,
    552340434, 552661254, 552661434, 553865415, 553977720, 554234520, 555743691, 555751611,
    555791628, 555807741, 555831861, 555872031, 555872121, 555936141, 556032396, 556032576,
    556192941, 556514031, 556514121, 556514151, 556706541, 557701962, 557718057, 559355355,
    559516143, 559567443, 559572093, 559572249, 559572297, 559573713, 559576998, 559580253,
    559580283, 559580313, 559583418, 559586553, 559588143, 559588323, 559589838, 559593123,
    559596114, 559596126, 559596138, 559596150, 559596162, 559596174, 559596186, 559596198,
    559596210, 559596222, 559596234, 559596246, 559596258, 559596318, 559596378, 559599393,
    559604193, 559612173, 559612233, 559620243, 559625073, 559628238, 559628418, 559636293,
    559637913, 559644423, 559644513, 559660338, 559660518, 559676433, 559692438, 559692618,
    559708623, 559708713, 559724538, 559724718, 559748643, 559756638, 559756818, 559788738,
    559788918, 559804833, 559852938, 559853118, 559949238, 559949418, 560045538, 560045718,
    560302338, 560302518, 560366538, 560366718, 560494938, 560495118, 560559138, 560559318,
    561530502, 561570699, 561811494, 561811584, 561811614, 561939804, 563448825, 563456895,
    563537145, 563577225, 563898315, 563898405, 563898435, 564347625, 565407246, 565423341,
    567277392, 567285492, 567293592, 567301542, 567309432, 567309462, 567309492, 567341592,
    567349572, 567349752, 567389832, 567389922, 567389952, 567429822, 567430002, 567510072,
    567510252, 567590322, 567590502, 567750822, 567751002, 569198406, 569199003, 569202093,
    569202249, 569202273, 569203392, 569205267, 569205315, 569205363, 569205423, 569206035,
    569208618, 569208648, 569208678, 569208708, 569210214, 569210310, 569211171, 569211783,
    569211843, 569213316, 569213412, 569213664, 569214933, 569215113, 569216307, 569218203,
    569218263, 569218311, 569218950, 569221299, 569221311, 569221323, 569221335, 569221347,
    569221359, 569221371, 569221383, 569221395, 569221407, 569221419, 569221431, 569221443,
    569221503, 569223936, 569224623, 569224683, 569226264, 569226360, 569226579, 569227773,
    569227953, 569229366, 569229462, 569231043, 569234148, 569234178, 569234208, 569237367,
    569237463, 569240613, 569243883, 569244480, 569247003, 569247183, 569250303, 569253405,
    569253453, 569254752, 569256723, 569259978, 569260068, 569266293, 569269563, 569272683,
    569272863, 569275983, 569279133, 569311338, 569311428, 569311458, 569324043, 569324223,
    569330493, 569340183, 569372283, 569388288, 569401083, 569404383, 569468583, 569580843,
    569581023, 570961431, 571154259, 571162083, 571162131, 571162179, 571218309, 571242429,
    571282599, 571282689, 571282719, 571346709, 571475109, 571603509, 571988709, 572117109,
    573112530, 573128625, 573369330, 574990701, 575006826, 575014761, 575054835, 575054901,
    575095011, 575119101, 575135106, 575135286, 575183301, 575215491, 575215581, 575215611,
    575247501, 575456106, 575456286, 575777106, 575777286, 577896603, 577896605, 578025003,
    578025005, 578153373, 578153403, 578153405, 578281803, 578281805, 578378028, 578410173,
    578410175, 578410203, 578410205, 578442228, 578442230, 578506428, 578538573, 578538575,
    578538603, 578538605, 578570448, 578570628, 578634828, 578666883, 578666973, 578666975,
    578698848, 578739063, 578756673, 578763228, 578771163, 578795403, 578795405, 578833715,
    578835269, 578835317, 578835365, 578840210, 578843510, 578853050, 578859335, 578859365,
    578859395, 578859425, 578859455, 578867465, 578875382, 578875406, 578875430, 578883515,
    578885075, 578899565, 578910755, 578915615, 578923683, 578923685, 578936435, 578939630,
    578947715, 578955626, 578955650, 578962115, 578963765, 578987795, 579013475, 579039155,
    579052083, 579052085, 579052173, 579052175, 579084050, 579084228, 579084230, 579116123,
    579116195, 579148250, 579148428, 579148430, 579180485, 579180575, 579180605, 579212450,
    579212630, 579244595, 579276650, 579276830, 579308885, 579308973, 579308975, 579309003,
    579309005, 579340850, 579341030, 579372995, 579437285, 579437403, 579437405, 579501395,
    579565685, 579565775, 579629795, 579694085, 579758195, 579822485, 579822605, 580833911,
    582712112, 582720047, 582760121, 582760187, 582800297, 582824387, 582840572, 582888587,
    582920777, 582920867, 582920897, 582952787, 583161392, 583161572, 583482572, 584285438,
    584285468, 584686553, 585986879, 586051259, 586051289, 586372079, 586500479, 586628879,
    586652999, 586693169, 586693259, 587527679, 588073655, 588073835, 588250295, 588266390,
    588266480, 588266510, 588330455, 588330635, 588394700, 588410795, 588420590, 588465461,
    588465485, 588471890, 588471920, 588478325, 588481475, 588482162, 588492674, 588516617,
    588523190, 588536075, 588574670, 590064176, 590064356, 590224676, 590224856, 590304926,
    590305106, 590345186, 590345306, 590505776, 590626106, 593499563, 593756363, 593884763,
    594077453, 594077543, 594141563, 594719573, 595843184, 596083979, 596099984, 596485394,
    597881777, 598042565, 598093865, 598097000, 598098515, 598098623, 598098647, 598098671,
    598098695, 598098719, 598098743, 598100135, 598103420, 598106645, 598106675, 598106705,
    598106735, 598106765, 598109840, 598112975, 598114565, 598114745, 598116260, 598119545,
    598122536, 598122548, 598122560, 598122572, 598122584, 598122596, 598122608, 598122620,
    598122632, 598122644, 598122656, 598122668, 598122680, 598122740, 598122800, 598125815,
    598130615, 598138595, 598138655, 598146665, 598151495, 598154660, 598154840, 598162715,
    598164335, 598170845, 598170935, 598170965, 598186760, 598186940, 598202855, 598218860,
    598219040, 598235045, 598235135, 598250960, 598251140, 598275065, 598283060, 598283240,
    598315160, 598315340, 598331255, 598379360, 598379540, 598475660, 598475840, 598571960,
    598572140, 598828760, 598828940, 598892960, 598893140, 599021360, 599021540, 599085560,
    599085740, 600081026, 600097121, 601975397, 601983317, 602023334, 602039447, 602063567,
    602103737, 602103827, 602103857, 602167847, 602264102, 602264282, 602424647, 602745737,
    602745827, 602745857, 602938247, 603949763, 604062068, 604318868, 605803889, 605811914,
    605819939, 605827964, 605835857, 605835869, 605835881, 605835905, 605836049, 605875994,
    605876174, 605916119, 605916299, 605956244, 605956424, 606036494, 606036674, 606277244,
    606277424, 606598244, 606598424, 607734950, 607738109, 607738157, 607738205, 607738265,
    607746266, 607746362, 607747865, 607754195, 607754375, 607770305, 607786250, 607786310,
    607802405, 607834505, 607837670, 607850465, 607850645, 607866605, 607914800, 607914890,
    607978865, 607979045, 608043110, 608107265, 608107445, 608171600, 608171690, 608171720,
    608235665, 608235845, 609680531, 609688601, 609768851, 609808859, 609808931, 609937331,
    610065731, 610130021, 610130111, 610130141, 611655047, 611767352, 612024152, 613517123,
    613533248, 613541183, 613581323, 613645523, 613661528, 613661708, 613709723, 613741913,
    613742003, 613742033, 613773923, 613822028, 613822208, 613982528, 613982708, 615467492,
    615491594, 615507689, 617360285, 617361785, 617366630, 617369750, 617369858, 617369906,
    617369930, 617369954, 617372975, 617377739, 617377787, 617377835, 617377895, 617379470,
    617385905, 617385935, 617385965, 617385995, 617386025, 617393885, 617398655, 617401850,
    617409935, 617417846, 617417858, 617417870, 617418050, 617424335, 617425985, 617442035,
    617449955, 617450015, 617466050, 617474135, 617482070, 617482250, 617514305, 617514395,
    617514425, 617527055, 617546270, 617546450, 617578343, 617578415, 617642705, 617642795,
    617642825, 617706815, 617738870, 617739050, 617835215, 618027905, 618027995, 618028025,
    618220415, 619360331, 619601126, 619601216, 619601246, 619729436, 621214532, 621222482,
    621230432, 621238532, 621246572, 621246662, 621262532, 621286538, 621286562, 621286742,
    621294632, 621326732, 621358832, 621366812, 621366992, 621447062, 621447242, 621687812,
    621687992, 622008812, 622008992, 623196878, 623212973, 625091099, 625099073, 625099121,
    625099169, 625179419, 625219499, 625347899, 625379954, 625380134, 625540589, 625540679,
    625540709, 625861499, 626600255, 626792810, 626792930, 626856875, 626998310, 627017561,
    627017609, 627023840, 627033419, 627033515, 627049610, 627049700, 627065615, 627113651,
    627113855, 627161915, 627177920, 627194015, 627370475, 627370655, 628109096, 628927841,
    629072276, 629393096, 629393276, 629714096, 630517052, 630517172, 632218583, 632282873,
    632282963, 632282993, 632346983, 632603783, 632732183, 636167480, 636167660, 636172355,
    636199580, 636199760, 636204455, 636231680, 636231860, 636236555, 636263780, 636263960,
    636268655, 636295880, 636296060, 636300755, 636327980, 636328160, 636332855, 636360080,
    636360260, 636364955, 636392180, 636392360, 636397055, 636408230, 636408410, 636424280,
    636424460, 636429155, 636440330, 636440510, 636456380, 636456560, 636461255, 636472430,
    636472610, 636488480, 636488660, 636493355, 636499073, 636499253, 636504530, 636504710,
    636509987, 636510167, 636520580, 636520760, 636525455, 636528605, 636528785, 636531173,
    636531353, 636536630, 636536810, 636542087, 636542267, 636544655, 636544835, 636552680,
    636552860, 636557555, 636559100, 636559280, 636560705, 636560885, 636563273, 636563453,
    636565520, 636565700, 636568730, 636568910, 636571940, 636572120, 636574187, 636574367,
    636576755, 636576935, 636578360, 636578540, 636579323, 636579503, 636580286, 636580466,
    636584780, 636584960, 636588953, 636589133, 636589274, 636589454, 636589655, 636590237,
    636590417, 636591200, 636591380, 636592805, 636592985, 636594089, 636595373, 636596978,
    636597158, 636597620, 636597800, 636598583, 636598904, 636600830, 636602756, 636603077,
    636604040, 636605003, 636605324, 636606287, 636607250, 636607571, 636608213, 636608855,
    636609818, 640501667, 640509737, 640549754, 640589987, 640630067, 640886867, 640951157,
    640951247, 640951277, 641015267, 642476183, 642588488, 642716978, 642717068, 642717098,
    644338259, 644354384, 644362295, 644362319, 644402459, 644482664, 644482844, 644563049,
    644563139, 644563169, 644595059, 644803664, 644803844, 645124664, 645124844, 646256636,
    646256732, 646261370, 646264625, 646264685, 646274285, 646280567, 646280591, 646280615,
    646280639, 646280663, 646280687, 646280795, 646296725, 646312670, 646312730, 646328825,
    646364090, 646376885, 646377065, 646393025, 646425125, 646441220, 646441310, 646441340,
    646457225, 646521425, 646633685, 646633865, 648207101, 648215021, 648271151, 648295271,
    648335441, 648335531, 648335561, 648399551, 648495806, 648495986, 648527951, 648656351,
    648977441, 648977531, 648977561, 649041551, 650181467, 650293772, 652035518, 652043618,
    652051718, 652059668, 652067558, 652067588, 652067618, 652099718, 652107698, 652107878,
    652147958, 652148048, 652148078, 652187948, 652188128, 652268198, 652268378, 652508948,
    652509128, 652829948, 652830128, 653993912, 654018014, 654034109, 654274814, 655655357,
    655886555, 655888205, 655888265, 655893050, 655896122, 655896146, 655896170, 655896194,
    655896218, 655896242, 655896350, 655899545, 655904255, 655904315, 655904363, 655905890,
    655912175, 655912205, 655912235, 655912265, 655912295, 655920305, 655928270, 655936259,
    655936355, 655937915, 655944290, 655944470, 655952405, 655963595, 655968455, 655976525,
    655976615, 655976645, 655992470, 656000555, 656008490, 656008670, 656014955, 656040635,
    656072690, 656072870, 656091995, 656104925, 656105015, 656105045, 656169035, 656233325,
    656233415, 656233445, 656265290, 656265470, 656361725, 656361815, 656361845, 656554235,
    656746925, 656747015, 656747045, 657886751, 658255856, 659764952, 659772887, 659780927,
    659813117, 659813207, 659813237, 659893232, 659893412, 659973527, 660053732, 660053912,
    660214232, 660214412, 661723298, 661739393, 663424841, 663617669, 663625493, 663625541,
    663625589, 663681719, 663705839, 663746009, 663746099, 663746129, 663938519, 664066919,
    664195319, 664323719, 664452119, 665527835, 665527895, 665535788, 665535884, 665537495,
    665543825, 665550260, 665559935, 665576030, 665576120, 665576150, 665592035, 665601620,
    665624135, 665640095, 665640275, 665656235, 665704340, 665768495, 665768675, 665832830,
    665832920, 665896895, 665897075, 665961140, 666025295, 666025475, 667446161, 667454186,
    667462211, 667470236, 667478141, 667478321, 667518266, 667518446, 667558391, 667558571,
    667598516, 667598696, 667678766, 667678946, 667919516, 667919696, 668240516, 668240696,
    669428582, 669444677, 670488383, 671130413, 671322803, 671330873, 671411123, 671451203,
    671611658, 671708003, 671772293, 672093203, 672221603, 673297319, 674340980, 674758100,
    674854400, 674950700, 674982980, 674998985, 675014900, 675015080, 675047000, 675047180,
    675079280, 675095195, 675111380, 675146555, 675175652, 675191675, 675191705, 675207680,
    675239780, 675255905, 675271880, 675336080, 675368180, 675528680, 676620266, 676748756,
    676989461, 678065087, 678514577, 678514667, 678835487, 678963887, 679156697, 680858108,
    682527584, 682527764, 682688084, 682688264, 682768334, 682768514, 682808504, 682888964,
    684776636, 684776732, 684777518, 684778205, 684780161, 684781307, 684781331, 684781355,
    684781379, 684781403, 684781427, 684782804, 684784625, 684784685, 684784733, 684785297,
    684787730, 684787760, 684787790, 684787820, 684787850, 684789368, 684789464, 684790433,
    684791045, 684791105, 684792686, 684792782, 684793076, 684794195, 684795569, 684797369,
    684797417, 684797465, 684797525, 684798062, 684800585, 684800645, 684800705, 684800717,
    684800729, 684800741, 684800753, 684800765, 684800777, 684800789, 684800801, 684800813,
    684800825, 684800837, 684800849, 684803348, 684803885, 684803945, 684805418, 684805514,
    684805841, 684807035, 684807215, 684808334, 684810305, 684813560, 684813650, 684813680,
    684816725, 684818606, 684819875, 684823145, 684826265, 684826445, 684828878, 684829469,
    684829565, 684832715, 684835985, 684839090, 684839150, 684845507, 684845555, 684848825,
    684851945, 684852125, 684855245, 684858395, 684890510, 684903305, 684903485, 684909755,
    684919445, 684951545, 684967640, 684967730, 684967760, 684980345, 684983645, 685047845,
    685160105, 685160285, 686733371, 686741441, 686821691, 686861699, 686861771, 686990171,
    687182861, 687182951, 687182981, 687246971, 687632171, 688707887, 688820192, 688948682,
    688948772, 688948802, 690570113, 690586088, 690594023, 690602063, 690634253, 690634343,
    690634373, 690666263, 690674273, 690714368, 690714548, 690794663, 691035368, 691035548,
    691356368, 691356548, 692520332, 692544434, 692560529
    }

\* v.toString(16) for an integer v >= 0.
RECURSIVE ToString16(_)
ToString16(v) ==
    IF v < 16 THEN <<LowerDigits[v + 1]>>
    ELSE ToString16(v \div 16) \o <<LowerDigits[(v % 16) + 1]>>

\* v.toString(16) for an integer v, padded with "0" when it has one
\* character.  A negative value keeps its sign ("-f"), a value above 255
\* has three digits or more.
PaddedHex(v) ==
    IF v < 0 THEN <<"-">> \o ToString16(0 - v)
    ELSE IF v < 16 THEN <<"0">> \o ToString16(v)
    ELSE ToString16(v)

\* toHex with Math.floor in place of Math.round.
toHex_Floor(n, below) ==
    CHOOSE hex \in {PaddedHex(17 * (m \div 40000) + (17 * (m % 40000)) \div 40000) :
                    m \in {n}} : TRUE

\* Math.round(c * 255).toString(16), padded when it has one character;
\* c = n / 600000, so c * 255 = 17 n / 40000.  At an exact half-integer
\* the result is one step lower when the double value lies below it.
\* n is evaluated once.
toHex(n, below) ==
    CHOOSE hex \in {PaddedHex(17 * (m \div 40000) +
                              (IF below /\ (17 * (m % 40000)) % 40000 = 20000
                               THEN (17 * (m % 40000)) \div 40000
                               ELSE (17 * (m % 40000) + 20000) \div 40000)) :
                    m \in {n}} : TRUE

\* t of hue2rgb after its two adjustments, in degrees (t = T / 360).
HueTurn(T) ==
    LET t1 == IF T < 0 THEN T + 360 ELSE T
    IN  IF t1 > 360 THEN t1 - 360 ELSE t1

\* 600000 * hue2rgb(p, q, t) with p = P / 10000, q = Q / 10000, t = T / 360.
hue2rgb(P, Q, T) ==
    LET t == HueTurn(T)
    IN  IF t < 60 THEN 60 * P + (Q - P) * t
        ELSE IF t < 180 THEN 60 * Q
        ELSE IF t < 240 THEN 60 * P + (Q - P) * (240 - t)
        ELSE 60 * P

\* h in 0..360; s and l integers, s possibly Infinity, both possibly NaN.
hslToHex(h, s, l) ==
    IF IsNaN(s) \/ IsNaN(l)
    THEN \* every channel is NaN and NaN.toString(16) is "NaN"
         <<"#", "N","a","N", "N","a","N", "N","a","N">>
    ELSE IF s = Infinity
    THEN \* q = l < 0.5 ? l * (1 + s) : l + s - l * s is Infinity for
         \* 0 < l < 0.5, -Infinity for l < 0 and NaN otherwise (0 * Infinity,
         \* Infinity - Infinity); p = 2 * l - q is -q.  Both ramps of
         \* hue2rgb add p and a multiple of q - p, which is NaN.
         LET nan  == <<"N","a","N">>
             inf  == <<"I","n","f","i","n","i","t","y">>
             ninf == <<"-">> \o inf
             q    == IF l >= 50 \/ l = 0 THEN nan
                     ELSE IF l > 0 THEN inf ELSE ninf
             p    == IF q = nan THEN nan ELSE IF q = inf THEN ninf ELSE inf
             Chan(T) == LET t == HueTurn(T)
                        IN  IF t < 60 THEN nan
                            ELSE IF t < 180 THEN q
                            ELSE IF t < 240 THEN nan
                            ELSE p
         IN  <<"#">> \o Chan(h + 120) \o Chan(h) \o Chan(h - 120)
    ELSE IF s = 0
    THEN LET c == toHex(6000 * l, FALSE) IN <<"#">> \o c \o c \o c
    ELSE
    LET Q == IF l < 50 THEN l * (100 + s) ELSE 100 * l + 100 * s - l * s
        P == 200 * l - Q
        Chan(T, i) ==
            LET n == hue2rgb(P, Q, T)
                t == HueTurn(T)
            IN  toHex(n, IF n = 60 * P THEN <<s, l>> \in PBelowHalf
                         ELSE IF 60 < t /\ t < 180
                         THEN <<s, l>> \in QBelowHalf
                         ELSE ((h * 6001 + s + 2900) * 107 + l + 6) * 3 + i
                                  \in RampBelowHalf)
    IN  <<"#">> \o Chan(h + 120, 0) \o Chan(h, 1) \o Chan(h - 120, 2)

\* normalizeHue with a single remainder, which keeps the dividend's sign.
normalizeHue_SingleRem(h) == JsRem(h, 360)

\* normalizeHue
normalizeHue(h) == JsRem(JsRem(h, 360) + 360, 360)

-----------------------------------------------------------------------------
(* generatePalette                                                         *)

Schemes == {"LuminosityContrast", "MonochromaticAchromatic", "Monochromatic",
            "Analogous", "Complementary", "Triadic", "SplitComplementary",
            "Tetradic"}

Color(hex, description) == [hex |-> hex, description |-> description]

\* pal.map(c => c.hex)
Hexes(pal) == [i \in 1..Len(pal) |-> pal[i].hex]

\* Literal hex strings of the MonochromaticAchromatic case.
White     == <<"#","F","F","F","F","F","F">>
LightGray == <<"#","E","5","E","7","E","B">>
DarkGray  == <<"#","4","B","5","5","6","3">>
Black     == <<"#","0","0","0","0","0","0">>

luminositySteps == <<10, 25, 40, 55, 70, 85, 95>>

\* `Sfumatura ${grades[index]} (L=${l}%)`
luminosityLabels ==
    <<"Sfumatura 900 (L=10%)", "Sfumatura 700 (L=25%)", "Sfumatura 500 (L=40%)",
      "Sfumatura 300 (L=55%)", "Sfumatura 200 (L=70%)", "Sfumatura 100 (L=85%)",
      "Sfumatura 50 (L=95%)">>

\* Reverse that leaves the order as generated.
Reverse_NotReversed(seq) == seq

\* Array.prototype.reverse
Reverse(seq) == [i \in 1..Len(seq) |-> seq[Len(seq) + 1 - i]]

\* getShades with the lighter and the darker entry exchanged.
getShades_DarkerFirst(hue, label, baseS, baseL) ==
    LET h == JsRem(JsRem(hue, 360) + 360, 360)
    IN  << Color(hslToHex(h, baseS, baseL), label),
           Color(hslToHex(h, MaxPlus(baseS, -10, 0),
                             MaxPlus(baseL, -20, 10)),
                 label \o " (Scuro)"),
           Color(hslToHex(h, MinPlus(baseS, 10, 100),
                             MinPlus(baseL, 20, 90)),
                 label \o " (Luminoso)") >>

\* getShades returning the principal and the lighter entry only.
getShades_NoDarker(hue, label, baseS, baseL) ==
    LET h == JsRem(JsRem(hue, 360) + 360, 360)
    IN  << Color(hslToHex(h, baseS, baseL), label),
           Color(hslToHex(h, MinPlus(baseS, 10, 100),
                             MinPlus(baseL, 20, 90)),
                 label \o " (Luminoso)") >>

\* getShades(hue, label) inside generatePalette, for base saturation and
\* lightness baseS, baseL.
getShades(hue, label, baseS, baseL) ==
    LET h == normalizeHue(hue)
    IN  << Color(hslToHex(h, baseS, baseL), label),
           Color(hslToHex(h, MinPlus(baseS, 10, 100),
                             MinPlus(baseL, 20, 90)),
                 label \o " (Luminoso)"),
           Color(hslToHex(h, MaxPlus(baseS, -10, 0),
                             MaxPlus(baseL, -20, 10)),
                 label \o " (Scuro)") >>

\* The list assembled by the switch, before the deduplication loop.
Candidates(hex, sch) ==
    LET WithHsl(hsl) ==
        LET baseH == hsl.h
            baseS == hsl.s
            baseL == hsl.l
            base  == << Color(hex, "Base") >>
            S(hue, label) == getShades(hue, label, baseS, baseL)
        IN  CASE sch = "LuminosityContrast" ->
                   Reverse([i \in 1..7 |->
                       Color(hslToHex(baseH, baseS, luminositySteps[i]),
                             luminosityLabels[i])])
              [] sch = "MonochromaticAchromatic" ->
                   << Color(hex, "Base (Accento)"),
                      Color(White, "Neutro (Bianco)"),
                      Color(LightGray, "Neutro (Grigio Chiaro)"),
                      Color(DarkGray, "Neutro (Grigio Scuro)"),
                      Color(Black, "Neutro (Nero)") >>
              [] sch = "Monochromatic" ->
                   << Color(hex, "Base (Originale)"),
                      Color(hslToHex(baseH, MinPlus(baseS, 15, 100),
                                            MinPlus(baseL, 30, 95)),
                            "Monocromatico (Chiaro 1)"),
                      Color(hslToHex(baseH, MinPlus(baseS, 5, 100),
                                            MinPlus(baseL, 15, 80)),
                            "Monocromatico (Chiaro 2)"),
                      Color(hslToHex(baseH, MaxPlus(baseS, -15, 0),
                                            MaxPlus(baseL, -30, 5)),
                            "Monocromatico (Scuro 1)"),
                      Color(hslToHex(baseH, MaxPlus(baseS, -5, 0),
                                            MaxPlus(baseL, -15, 20)),
                            "Monocromatico (Scuro 2)") >>
              [] sch = "Analogous" ->
                   base \o S(normalizeHue(baseH + 30), "Analogo 1")
                        \o S(normalizeHue(baseH - 30), "Analogo 2")
              [] sch = "Complementary" ->
                   LET compH == normalizeHue(baseH + 180)
                   IN  base \o S(compH, "Complementare")
                            \o S(normalizeHue(compH + 15), "Complementare Variante 1")
                            \o S(normalizeHue(compH - 15), "Complementare Variante 2")
              [] sch = "Triadic" ->
                   base \o S(normalizeHue(baseH + 120), "Triadico 1")
                        \o S(normalizeHue(baseH + 240), "Triadico 2")
              [] sch = "SplitComplementary" ->
                   LET compH == normalizeHue(baseH + 180)
                   IN  base \o S(normalizeHue(compH + 30), "Split Comp. 1")
                            \o S(normalizeHue(compH - 30), "Split Comp. 2")
              [] sch = "Tetradic" ->
                   base \o S(normalizeHue(baseH + 90), "Tetradico 1 (90°)")
                        \o S(normalizeHue(baseH + 180), "Tetradico 2 (180°)")
                        \o S(normalizeHue(baseH + 270), "Tetradico 3 (270°)")
    IN  WithHsl(hexToHsl(hex))

\* The skip test of the deduplication loop.
SkipAsBase(color, hex, sch) ==
    /\ sch # "LuminosityContrast"
    /\ color.hex = hex
    /\ color.description # "Base"

\* The deduplication loop with the membership test inverted.
RECURSIVE Dedup_HasInverted(_, _, _, _, _, _)
Dedup_HasInverted(cands, i, uniqueHexs, finalPalette, hex, sch) ==
    IF i > Len(cands) THEN finalPalette
    ELSE IF SkipAsBase(cands[i], hex, sch)
    THEN Dedup_HasInverted(cands, i + 1, uniqueHexs, finalPalette, hex, sch)
    ELSE IF cands[i].hex \in uniqueHexs
    THEN Dedup_HasInverted(cands, i + 1, uniqueHexs \cup {cands[i].hex},
                           Append(finalPalette, cands[i]), hex, sch)
    ELSE Dedup_HasInverted(cands, i + 1, uniqueHexs, finalPalette, hex, sch)

\* The deduplication loop: uniqueHexs is the set of hex strings already
\* pushed, finalPalette the list pushed so far, i the next index.
RECURSIVE Dedup(_, _, _, _, _, _)
Dedup(cands, i, uniqueHexs, finalPalette, hex, sch) ==
    IF i > Len(cands) THEN finalPalette
    ELSE IF SkipAsBase(cands[i], hex, sch)
    THEN Dedup(cands, i + 1, uniqueHexs, finalPalette, hex, sch)
    ELSE IF cands[i].hex \notin uniqueHexs
    THEN Dedup(cands, i + 1, uniqueHexs \cup {cands[i].hex},
               Append(finalPalette, cands[i]), hex, sch)
    ELSE Dedup(cands, i + 1, uniqueHexs, finalPalette, hex, sch)

generatePalette(hex, sch) ==
    Dedup(Candidates(hex, sch), 1, {}, <<>>, hex, sch)

-----------------------------------------------------------------------------
(* Accessibility metrics: src/src/store/useThemeStore.ts (hexToRgb,         *)
(* getLuminance, getContrastText) and src/src/lib/utils.ts (getTextColor,  *)
(* getContrastRatio).                                                      *)
(*                                                                         *)
(* A luminance is kept as an integer number of units of 10^-9.  The three  *)
(* terms of the WCAG sum, 0.2126 * R', 0.7152 * G', 0.0722 * B' with       *)
(* c' = c <= 0.03928 ? c / 12.92 : ((c + 0.055) / 1.055) ^ 2.4 and         *)
(* c = channel / 255, are tabulated by channel value 0 .. 255, each the    *)
(* double value of the source rounded to the nearest unit.  On all 2^24    *)
(* colours the comparison of the sum with 0.5 decides as the double        *)
(* evaluation does.                                                        *)

\* One luminance unit is 10^-9: the luminance 1.0.
LuminanceOne == 1000000000

\* The threshold 0.5 of getContrastText, in luminance units.
LuminanceHalf == 500000000

\* The 0.05 added to each luminance by getContrastRatio, in luminance units.
RatioOffset == 50000000

\* 0.2126 * R' by red channel value (index channel + 1).
RedLuminance ==
    << 0, 64530, 129060, 193590, 258119, 322649,
       387179, 451709, 516239, 580769, 645298, 711474,
       781625, 855655, 933621, 1015580, 1101590, 1191706,
       1285982, 1384471, 1487224, 1594294, 1705731, 1821584,
       1941901, 2066731, 2196120, 2330116, 2468763, 2612107,
       2760193, 2913063, 3070761, 3233330, 3400812, 3573248,
       3750680, 3933147, 4120690, 4313349, 4511162, 4714168,
       4922406, 5135913, 5354726, 5578884, 5808422, 6043376,
       6283783, 6529678, 6781097, 7038073, 7300643, 7568840,
       7842697, 8122249, 8407530, 8698571, 8995406, 9298067,
       9606587, 9920997, 10241330, 10567616, 10899887, 11238174,
       11582507, 11932917, 12289434, 12652089, 13020911, 13395930,
       13777174, 14164675, 14558459, 14958556, 15364995, 15777805,
       16197012, 16622646, 17054734, 17493304, 17938383, 18389998,
       18848178, 19312948, 19784336, 20262367, 20747070, 21238470,
       21736592, 22241465, 22753112, 23271560, 23796834, 24328960,
       24867964, 25413870, 25966703, 26526488, 27093251, 27667015,
       28247805, 28835646, 29430561, 30032576, 30641713, 31257997,
       31881451, 32512100, 33149966, 33795074, 34447445, 35107105,
       35774074, 36448378, 37130038, 37819077, 38515518, 39219384,
       39930696, 40649478, 41375751, 42109537, 42850860, 43599739,
       44356199, 45120259, 45891942, 46671270, 47458264, 48252945,
       49055334, 49865454, 50683324, 51508967, 52342402, 53183651,
       54032735, 54889675, 55754490, 56627202, 57507830, 58396397,
       59292920, 60197422, 61109922, 62030440, 62958996, 63895611,
       64840303, 65793093, 66754000, 67723045, 68700246, 69685624,
       70679197, 71680985, 72691007, 73709282, 74735831, 75770671,
       76813821, 77865302, 78925131, 79993327, 81069910, 82154898,
       83248309, 84350162, 85460476, 86579269, 87706560, 88842366,
       89986707, 91139600, 92301063, 93471115, 94649774, 95837057,
       97032984, 98237570, 99450835, 100672796, 101903471, 103142877,
       104391033, 105647955, 106913661, 108188169, 109471496, 110763659,
       112064676, 113374563, 114693339, 116021020, 117357624, 118703167,
       120057666, 121421139, 122793602, 124175072, 125565566, 126965100,
       128373692, 129791358, 131218115, 132653979, 134098967, 135553095,
       137016380, 138488839, 139970486, 141461340, 142961415, 144470729,
       145989297, 147517136, 149054262, 150600691, 152156438, 153721520,
       155295953, 156879753, 158472935, 160075515, 161687510, 163308934,
       164939804, 166580134, 168229942, 169889242, 171558050, 173236381,
       174924251, 176621676, 178328670, 180045249, 181771428, 183507224,
       185252650, 187007722, 188772455, 190546865, 192330966, 194124773,
       195928303, 197741568, 199564586, 201397370, 203239935, 205092296,
       206954469, 208826467, 210708306, 212600000 >>

\* 0.7152 * G' by green channel value.
GreenLuminance ==
    << 0, 217082, 434165, 651247, 868330, 1085412,
       1302495, 1519577, 1736660, 1953742, 2170825, 2393442,
       2629438, 2878478, 3140759, 3416477, 3705821, 4008976,
       4326125, 4657447, 5003117, 5363308, 5738188, 6127923,
       6532679, 6952615, 7387889, 7838659, 8305078, 8787296,
       9285465, 9799730, 10330237, 10877130, 11440549, 12020635,
       12617526, 13231357, 13862265, 14510380, 15175836, 15858762,
       16559287, 17277539, 18013642, 18767722, 19539902, 20330303,
       21139048, 21966255, 22812043, 23676529, 24559830, 25462060,
       26383335, 27323767, 28283467, 29262549, 30261121, 31279293,
       32317173, 33374870, 34452489, 35550136, 36667917, 37805935,
       38964294, 40143096, 41342444, 42562438, 43803178, 45064765,
       46347296, 47650871, 48975587, 50321540, 51688828, 53077544,
       54487785, 55919644, 57373215, 58848592, 60345866, 61865130,
       63406475, 64969992, 66555770, 68163900, 69794471, 71447570,
       73123288, 74821709, 76542923, 78287016, 80054072, 81844179,
       83657422, 85493884, 87353650, 89236804, 91143429, 93073608,
       95027424, 97004957, 99006291, 101031506, 103080682, 105153901,
       107251242, 109372784, 111518607, 113688789, 115883409, 118102546,
       120346275, 122614675, 124907823, 127225795, 129568667, 131936516,
       134329416, 136747443, 139190672, 141659177, 144153033, 146672312,
       149217090, 151787438, 154383430, 157005138, 159652635, 162325993,
       165025283, 167750576, 170501945, 173279459, 176083189, 178913205,
       181769578, 184652376, 187561670, 190497529, 193460020, 196449214,
       199465177, 202507979, 205577687, 208674369, 211798091, 214948922,
       218126927, 221332174, 224564728, 227824656, 231112023, 234426896,
       237769339, 241139417, 244537197, 247962741, 251416115, 254897383,
       258406609, 261943856, 265509189, 269102670, 272724363, 276374331,
       280052636, 283759341, 287494508, 291258200, 295050477, 298871403,
       302721038, 306599443, 310506681, 314442811, 318407894, 322401992,
       326425164, 330477470, 334558971, 338669726, 342809795, 346979237,
       351178112, 355406478, 359664395, 363951921, 368269114, 372616034,
       376992738, 381399284, 385835731, 390302135, 394798554, 399325047,
       403881669, 408468478, 413085531, 417732884, 422410595, 427118719,
       431857313, 436626432, 441426133, 446256472, 451117504, 456009284,
       460931869, 465885312, 470869669, 475884996, 480931346, 486008774,
       491117335, 496257084, 501428073, 506630358, 511863992, 517129028,
       522425521, 527753524, 533113091, 538504273, 543927126, 549381701,
       554868051, 560386228, 565936287, 571518278, 577132255, 582778268,
       588456372, 594166616, 599909053, 605683735, 611490713, 617330039,
       623201764, 629105938, 635042614, 641011842, 647013672, 653048156,
       659115344, 665215286, 671348033, 677513635, 683712142, 689943604,
       696208072, 702505594, 708836220, 715200000 >>

\* 0.0722 * B' by blue channel value.
BlueLuminance ==
    << 0, 21915, 43829, 65744, 87659, 109573,
       131488, 153403, 175317, 197232, 219146, 241620,
       265444, 290585, 317062, 344896, 374106, 404709,
       436726, 470173, 505069, 541430, 579275, 618619,
       659479, 701872, 745813, 791319, 838404, 887084,
       937375, 989290, 1042846, 1098055, 1154932, 1213493,
       1273749, 1335716, 1399406, 1464834, 1532013, 1600954,
       1671673, 1744181, 1818491, 1894616, 1972568, 2052360,
       2134003, 2217511, 2302894, 2390164, 2479334, 2570415,
       2663418, 2758356, 2855238, 2954077, 3054884, 3157669,
       3262444, 3369219, 3478006, 3588814, 3701655, 3816539,
       3933476, 4052477, 4173552, 4296711, 4421965, 4549323,
       4678796, 4810393, 4944124, 5079999, 5218028, 5358220,
       5500585, 5645132, 5791871, 5940811, 6091962, 6245333,
       6400933, 6558772, 6718857, 6881199, 7045806, 7212688,
       7381853, 7553310, 7727068, 7903136, 8081521, 8262234,
       8445282, 8630675, 8818419, 9008525, 9201001, 9395854,
       9593093, 9792726, 9994763, 10199210, 10406076, 10615369,
       10827097, 11041268, 11257891, 11476972, 11698521, 11922544,
       12149051, 12378047, 12609543, 12843544, 13080058, 13319095,
       13560660, 13804761, 14051407, 14300605, 14552362, 14806685,
       15063582, 15323061, 15585128, 15849792, 16117059, 16386936,
       16659432, 16934552, 17212305, 17492697, 17775736, 18061428,
       18349781, 18640802, 18934497, 19230875, 19529941, 19831702,
       20136166, 20443339, 20753228, 21065841, 21381183, 21699262,
       22020084, 22343656, 22669985, 22999077, 23330940, 23665579,
       24003001, 24343213, 24686221, 25032033, 25380654, 25732090,
       26086350, 26443437, 26803361, 27166125, 27531738, 27900205,
       28271533, 28645728, 29022796, 29402743, 29785577, 30171302,
       30559926, 30951454, 31345893, 31743248, 32143526, 32546734,
       32952876, 33361959, 33773990, 34188974, 34606917, 35027826,
       35451705, 35878562, 36308402, 36741231, 37177055, 37615880,
       38057712, 38502556, 38950419, 39401306, 39855223, 40312176,
       40772171, 41235213, 41701308, 42170462, 42642680, 43117969,
       43596334, 44077780, 44562314, 45049940, 45540665, 46034494,
       46531433, 47031487, 47534662, 48040963, 48550396, 49062966,
       49578680, 50097541, 50619557, 51144731, 51673071, 52204580,
       52739265, 53277132, 53818184, 54362428, 54909869, 55460513,
       56014364, 56571429, 57131711, 57695218, 58261953, 58831923,
       59405131, 59981585, 60561289, 61144247, 61730466, 62319951,
       62912706, 63508737, 64108049, 64710647, 65316537, 65925723,
       66538210, 67154004, 67773110, 68395532, 69021276, 69650347,
       70282750, 70918490, 71557571, 72200000 >>

\* The string with its leading '#' removed, if it has one.
StripHash(hex) == IF Len(hex) >= 1 /\ hex[1] = "#" THEN Tail(hex) ELSE hex

\* hexToRgb of the store: /^#?([a-f\d]{2})([a-f\d]{2})([a-f\d]{2})$/i, and
\* {r: 0, g: 0, b: 0} when the string does not match.
hexToRgb(hex) ==
    LET body == StripHash(hex)
    IN  IF Len(body) = 6 /\ \A i \in 1..6 : IsHexDigit(body[i])
        THEN [r |-> parseInt16(body[1], body[2]),
              g |-> parseInt16(body[3], body[4]),
              b |-> parseInt16(body[5], body[6])]
        ELSE [r |-> 0, g |-> 0, b |-> 0]

\* getLuminance of the store.
getLuminance(hexColor) ==
    LET rgb == hexToRgb(hexColor)
    IN  RedLuminance[rgb.r + 1] + GreenLuminance[rgb.g + 1]
            + BlueLuminance[rgb.b + 1]

WhiteLower == <<"#","f","f","f","f","f","f">>

\* getContrastText with the comparison against 0.05 instead of 0.5.
getContrastText_LowThreshold(hexColor) ==
    IF getLuminance(hexColor) > RatioOffset THEN Black ELSE WhiteLower

\* getContrastText of the store.
getContrastText(hexColor) ==
    IF getLuminance(hexColor) > LuminanceHalf THEN Black ELSE WhiteLower

\* backgroundColor.replace('#', ''): the first '#' removed, wherever it is.
RECURSIVE RemoveFirstHash(_)
RemoveFirstHash(str) ==
    IF str = <<>> THEN <<>>
    ELSE IF Head(str) = "#" THEN Tail(str)
    ELSE <<Head(str)>> \o RemoveFirstHash(Tail(str))

\* Channel triples on which the exact value of
\* (0.299 * r + 0.587 * g + 0.114 * b) / 255 is 0.5 and its double value
\* is above 0.5 (the only one with channels in -15..255 on which the two
\* differ).
LumaAboveHalf == {<<218, 58, 248>>}

\* getTextColor of lib/utils.ts.
getTextColor(backgroundColor) ==
    LET hex == RemoveFirstHash(backgroundColor)
        at(i) == IF i <= Len(hex) THEN hex[i] ELSE ""
        r == parseInt16(at(1), at(2))
        g == parseInt16(at(3), at(4))
        b == parseInt16(at(5), at(6))
    IN  IF IsNaN(r) \/ IsNaN(g) \/ IsNaN(b) THEN White
        ELSE IF \/ 299 * r + 587 * g + 114 * b > 127500
                \/ <<r, g, b>> \in LumaAboveHalf
        THEN Black
        ELSE White

\* weight * (c / 12.92) for a channel c = v / 255 with v < 0, which takes
\* the branch c <= 0.03928; in units of 10^-9 with the weight in units of
\* 10^-4: 10^5 / (255 * 12.92) = 30 + 5810 / 16473.
LinearLuminance(weight, v) ==
    30 * weight * v + RoundDiv(5810 * weight * v, 16473)

\* getLuminance inside getContrastRatio, in units of 10^-9: NaN when a
\* channel does not parse, and below 0 when parseInt reads a negative one.
getContrastRatio_getLuminance(hex) ==
    LET hexColor == StripHash(hex)
        at(i) == IF i <= Len(hexColor) THEN hexColor[i] ELSE ""
        r == parseInt16(at(1), at(2))
        g == parseInt16(at(3), at(4))
        b == parseInt16(at(5), at(6))
    IN  IF IsNaN(r) \/ IsNaN(g) \/ IsNaN(b) THEN NaN
        ELSE (IF r < 0 THEN LinearLuminance(2126, r) ELSE RedLuminance[r + 1])
           + (IF g < 0 THEN LinearLuminance(7152, g) ELSE GreenLuminance[g + 1])
           + (IF b < 0 THEN LinearLuminance(722, b) ELSE BlueLuminance[b + 1])

\* getContrastRatio of lib/utils.ts.  The quotient it returns is kept as the
\* fraction num / den of the two offset luminances, both NaN when either
\* colour does not parse.
getContrastRatio(color1, color2) ==
    LET L1 == getContrastRatio_getLuminance(color1)
        L2 == getContrastRatio_getLuminance(color2)
    IN  IF IsNaN(L1) \/ IsNaN(L2) THEN [num |-> NaN, den |-> NaN]
        ELSE LET l1 == L1 + RatioOffset
                 l2 == L2 + RatioOffset
             IN  IF l1 > l2 THEN [num |-> l1, den |-> l2]
                            ELSE [num |-> l2, den |-> l1]

-----------------------------------------------------------------------------
(* Colour utilities of src/src/store/useThemeStore.ts (lines 99-311): the  *)
(* second hexToHsl / hslToHex pair, the scheme functions built on it and   *)
(* generateRandomPalette.  hslToHex computes c = (1 - |2l - 1|) s,         *)
(* x = c (1 - |(h / 60) mod 2 - 1|), m = l - c / 2 and rounds (v + m) 255  *)
(* for v one of c, x, 0; with A = 100 - |2l - 100| and                     *)
(* B = 60 - |h mod 120 - 60| the three values c + m, x + m and m are       *)
(* 30 (200 l + A s), A s B + 30 (200 l - A s) and 30 (200 l - A s) over    *)
(* 600000.  The arguments on which the double evaluation of the source     *)
(* lands just below a half-integer whose exact value is the half-integer   *)
(* are tabulated (complete for h in 0..360, s and l in 0..100).            *)

\* (s, l) on which the double value of (c + m) * 255 is just below its exact
\* half-integer value.
StoreChromaBelowHalf ==
    {
    <<60,75>>, <<100,5>>
    }

\* (s, l) on which the double value of m * 255 is just below its exact
\* half-integer value.
StoreMinBelowHalf ==
    {
    <<75,40>>, <<75,60>>, <<80,50>>, <<100,95>>
    }

\* (h, s, l) on which the double value of (x + m) * 255 is just below its exact
\* half-integer value.
StoreMidBelowHalf ==
    {
    <<0,75,40>>, <<0,75,60>>, <<0,80,50>>, <<0,100,95>>, <<2,100,50>>, <<4,100,25>>,
    <<5,5,84>>, <<5,40,15>>, <<5,45,16>>, <<5,50,60>>, <<5,80,58>>, <<5,80,70>>,
    <<5,80,94>>, <<5,95,16>>, <<6,75,25>>, <<6,100,50>>, <<10,25,12>>, <<10,25,80>>,
    <<10,50,15>>, <<10,50,35>>, <<10,75,20>>, <<10,80,50>>, <<10,90,25>>, <<10,100,30>>,
    <<10,100,50>>, <<10,100,58>>, <<10,100,70>>, <<10,100,86>>, <<10,100,94>>, <<12,100,25>>,
    <<15,75,16>>, <<20,40,50>>, <<20,50,12>>, <<20,50,36>>, <<20,75,40>>, <<20,75,60>>,
    <<20,80,50>>, <<20,100,15>>, <<20,100,25>>, <<20,100,35>>, <<20,100,45>>, <<25,25,84>>,
    <<30,47,90>>, <<30,49,90>>, <<30,51,90>>, <<30,53,90>>, <<30,55,90>>, <<32,100,75>>,
    <<34,50,75>>, <<35,100,72>>, <<38,25,75>>, <<40,20,75>>, <<40,50,72>>, <<40,100,65>>,
    <<40,100,75>>, <<40,100,85>>, <<50,10,75>>, <<50,25,72>>, <<50,25,80>>, <<50,50,85>>,
    <<55,5,48>>, <<55,8,75>>, <<55,20,72>>, <<55,30,24>>, <<55,40,65>>, <<55,40,85>>,
    <<55,45,84>>, <<55,50,60>>, <<55,64,50>>, <<55,70,60>>, <<55,80,6>>, <<55,80,18>>,
    <<55,80,30>>, <<55,80,70>>, <<55,90,60>>, <<55,95,52>>, <<55,95,84>>, <<55,96,50>>,
    <<60,60,75>>, <<60,100,5>>, <<62,100,50>>, <<65,5,48>>, <<65,8,75>>, <<65,20,72>>,
    <<65,40,65>>, <<65,40,85>>, <<65,45,84>>, <<65,50,60>>, <<65,70,60>>, <<66,75,75>>,
    <<66,100,50>>, <<70,10,75>>, <<70,25,72>>, <<70,25,80>>, <<70,50,65>>, <<70,50,75>>,
    <<70,50,85>>, <<70,80,50>>, <<70,100,6>>, <<70,100,10>>, <<70,100,22>>, <<70,100,26>>,
    <<70,100,30>>, <<70,100,46>>, <<70,100,50>>, <<70,100,70>>, <<74,100,50>>, <<80,20,75>>,
    <<80,50,72>>, <<82,25,75>>, <<85,100,20>>, <<85,100,72>>, <<86,50,75>>, <<90,47,90>>,
    <<90,49,90>>, <<90,51,90>>, <<90,53,90>>, <<90,55,90>>, <<92,100,25>>, <<95,25,84>>,
    <<100,40,50>>, <<100,50,12>>, <<100,50,36>>, <<100,75,40>>, <<100,75,60>>, <<100,80,50>>,
    <<100,100,15>>, <<100,100,25>>, <<100,100,35>>, <<100,100,45>>, <<105,75,16>>, <<108,100,25>>,
    <<110,100,86>>, <<110,100,94>>, <<115,5,84>>, <<115,16,50>>, <<115,30,60>>, <<115,32,50>>,
    <<115,40,15>>, <<115,40,35>>, <<115,45,16>>, <<115,50,40>>, <<115,50,60>>, <<115,55,84>>,
    <<115,64,50>>, <<115,70,8>>, <<115,70,24>>, <<115,72,25>>, <<115,80,30>>, <<115,80,50>>,
    <<115,80,54>>, <<115,80,58>>, <<115,80,62>>, <<115,80,70>>, <<115,80,86>>, <<115,80,94>>,
    <<115,90,40>>, <<115,90,60>>, <<115,95,16>>, <<115,95,48>>, <<115,96,50>>, <<115,100,20>>,
    <<116,100,25>>, <<120,75,40>>, <<120,75,60>>, <<120,80,50>>, <<120,100,95>>, <<122,100,50>>,
    <<125,5,84>>, <<125,80,94>>, <<130,25,12>>, <<130,25,80>>, <<130,40,50>>, <<130,50,15>>,
    <<130,50,25>>, <<130,50,35>>, <<130,50,45>>, <<130,60,50>>, <<130,70,75>>, <<130,75,20>>,
    <<130,80,50>>, <<130,90,25>>, <<130,100,10>>, <<130,100,30>>, <<130,100,50>>, <<130,100,54>>,
    <<130,100,58>>, <<130,100,62>>, <<130,100,66>>, <<130,100,70>>, <<130,100,74>>, <<130,100,82>>,
    <<130,100,86>>, <<130,100,94>>, <<135,75,16>>, <<138,100,50>>, <<145,25,84>>, <<145,40,25>>,
    <<145,80,50>>, <<145,100,4>>, <<145,100,12>>, <<145,100,20>>, <<145,100,28>>, <<145,100,36>>,
    <<145,100,44>>, <<145,100,80>>, <<146,50,25>>, <<146,100,50>>, <<150,47,90>>, <<150,49,90>>,
    <<150,51,90>>, <<150,53,90>>, <<150,55,90>>, <<152,100,75>>, <<158,25,75>>, <<160,20,75>>,
    <<160,50,20>>, <<160,50,72>>, <<160,60,25>>, <<160,75,8>>, <<160,75,24>>, <<160,75,40>>,
    <<160,80,50>>, <<160,100,55>>, <<160,100,65>>, <<160,100,75>>, <<160,100,85>>, <<160,100,95>>,
    <<166,100,50>>, <<168,100,75>>, <<170,10,75>>, <<170,25,72>>, <<170,50,85>>, <<174,75,75>>,
    <<174,100,50>>, <<175,5,48>>, <<175,8,75>>, <<175,20,72>>, <<175,20,80>>, <<175,30,8>>,
    <<175,30,24>>, <<175,40,65>>, <<175,40,85>>, <<175,45,84>>, <<175,50,60>>, <<175,60,20>>,
    <<175,60,80>>, <<175,64,50>>, <<175,70,60>>, <<175,80,6>>, <<175,80,10>>, <<175,80,18>>,
    <<175,80,22>>, <<175,80,26>>, <<175,80,30>>, <<175,80,46>>, <<175,80,50>>, <<175,80,70>>,
    <<175,88,25>>, <<175,90,60>>, <<175,95,52>>, <<175,95,84>>, <<175,96,50>>, <<175,100,80>>,
    <<176,100,75>>, <<180,60,75>>, <<180,100,5>>, <<184,100,75>>, <<185,5,48>>, <<185,8,75>>,
    <<185,20,72>>, <<185,20,80>>, <<185,30,8>>, <<185,30,24>>, <<185,40,65>>, <<185,40,85>>,
    <<185,45,84>>, <<185,50,60>>, <<185,60,20>>, <<185,60,80>>, <<185,64,50>>, <<185,70,60>>,
    <<185,80,6>>, <<185,80,10>>, <<185,80,18>>, <<185,80,22>>, <<185,80,26>>, <<185,80,30>>,
    <<185,80,46>>, <<185,80,50>>, <<185,80,70>>, <<185,88,25>>, <<185,90,60>>, <<185,95,52>>,
    <<185,95,84>>, <<185,96,50>>, <<185,100,80>>, <<186,75,75>>, <<186,100,50>>, <<190,10,75>>,
    <<190,25,72>>, <<190,50,85>>, <<192,100,75>>, <<194,100,50>>, <<200,20,75>>, <<200,50,20>>,
    <<200,50,72>>, <<200,60,25>>, <<200,75,8>>, <<200,75,24>>, <<200,75,40>>, <<200,80,50>>,
    <<200,100,55>>, <<200,100,65>>, <<200,100,75>>, <<200,100,85>>, <<200,100,95>>, <<202,25,75>>,
    <<208,100,75>>, <<210,47,90>>, <<210,49,90>>, <<210,51,90>>, <<210,53,90>>, <<210,55,90>>,
    <<214,50,25>>, <<214,100,50>>, <<215,25,84>>, <<215,40,25>>, <<215,80,50>>, <<215,100,4>>,
    <<215,100,12>>, <<215,100,20>>, <<215,100,28>>, <<215,100,36>>, <<215,100,44>>, <<215,100,80>>,
    <<222,100,50>>, <<225,75,16>>, <<230,25,12>>, <<230,25,80>>, <<230,40,50>>, <<230,50,15>>,
    <<230,50,25>>, <<230,50,35>>, <<230,50,45>>, <<230,60,50>>, <<230,70,75>>, <<230,75,20>>,
    <<230,80,50>>, <<230,90,25>>, <<230,100,10>>, <<230,100,30>>, <<230,100,50>>, <<230,100,54>>,
    <<230,100,58>>, <<230,100,62>>, <<230,100,66>>, <<230,100,70>>, <<230,100,74>>, <<230,100,82>>,
    <<230,100,86>>, <<230,100,94>>, <<235,5,84>>, <<235,80,94>>, <<238,100,50>>, <<240,75,40>>,
    <<240,75,60>>, <<240,80,50>>, <<240,100,95>>, <<242,100,50>>, <<244,100,25>>, <<245,5,84>>,
    <<245,10,60>>, <<245,16,50>>, <<245,20,4>>, <<245,20,12>>, <<245,20,36>>, <<245,20,44>>,
    <<245,20,80>>, <<245,30,40>>, <<245,30,60>>, <<245,32,50>>, <<245,40,5>>, <<245,40,15>>,
    <<245,40,25>>, <<245,40,35>>, <<245,40,45>>, <<245,45,16>>, <<245,45,48>>, <<245,48,50>>,
    <<245,50,40>>, <<245,50,60>>, <<245,55,52>>, <<245,55,84>>, <<245,56,75>>, <<245,60,20>>,
    <<245,64,50>>, <<245,70,8>>, <<245,70,24>>, <<245,70,40>>, <<245,70,60>>, <<245,72,25>>,
    <<245,80,10>>, <<245,80,30>>, <<245,80,50>>, <<245,80,54>>, <<245,80,58>>, <<245,80,62>>,
    <<245,80,66>>, <<245,80,70>>, <<245,80,74>>, <<245,80,82>>, <<245,80,86>>, <<245,80,94>>,
    <<245,88,75>>, <<245,90,40>>, <<245,90,60>>, <<245,95,16>>, <<245,95,48>>, <<245,96,50>>,
    <<245,100,20>>, <<246,50,50>>, <<246,75,25>>, <<246,100,50>>, <<250,100,94>>, <<255,75,16>>,
    <<258,100,50>>, <<260,20,25>>, <<260,40,50>>, <<260,50,4>>, <<260,50,12>>, <<260,50,20>>,
    <<260,50,28>>, <<260,50,36>>, <<260,50,44>>, <<260,50,80>>, <<260,60,75>>, <<260,75,40>>,
    <<260,75,60>>, <<260,80,50>>, <<260,100,5>>, <<260,100,15>>, <<260,100,25>>, <<260,100,35>>,
    <<260,100,45>>, <<262,25,25>>, <<262,50,50>>, <<262,75,75>>, <<262,100,50>>, <<265,25,84>>,
    <<270,47,90>>, <<270,49,90>>, <<270,51,90>>, <<270,53,90>>, <<270,55,90>>, <<272,100,75>>,
    <<274,50,75>>, <<274,100,50>>, <<275,25,48>>, <<275,40,75>>, <<275,50,40>>, <<275,50,60>>,
    <<275,80,50>>, <<275,100,20>>, <<275,100,56>>, <<275,100,64>>, <<275,100,72>>, <<275,100,80>>,
    <<275,100,88>>, <<275,100,96>>, <<276,100,25>>, <<280,20,75>>, <<286,100,50>>, <<288,100,75>>,
    <<290,10,75>>, <<290,25,72>>, <<290,25,80>>, <<290,25,88>>, <<290,30,25>>, <<290,50,65>>,
    <<290,50,75>>, <<290,50,85>>, <<290,60,50>>, <<290,70,25>>, <<290,75,20>>, <<290,80,50>>,
    <<290,90,75>>, <<290,100,6>>, <<290,100,10>>, <<290,100,14>>, <<290,100,18>>, <<290,100,22>>,
    <<290,100,26>>, <<290,100,30>>, <<290,100,34>>, <<290,100,38>>, <<290,100,42>>, <<290,100,46>>,
    <<290,100,50>>, <<290,100,70>>, <<290,100,90>>, <<292,100,25>>, <<295,8,75>>, <<295,20,72>>,
    <<300,60,75>>, <<300,100,5>>, <<305,8,75>>, <<305,20,72>>, <<308,100,25>>, <<310,10,75>>,
    <<310,25,72>>, <<310,25,80>>, <<310,25,88>>, <<310,30,25>>, <<310,50,65>>, <<310,50,75>>,
    <<310,50,85>>, <<310,60,50>>, <<310,70,25>>, <<310,75,20>>, <<310,80,50>>, <<310,90,75>>,
    <<310,100,6>>, <<310,100,10>>, <<310,100,14>>, <<310,100,18>>, <<310,100,22>>, <<310,100,26>>,
    <<310,100,30>>, <<310,100,34>>, <<310,100,38>>, <<310,100,42>>, <<310,100,46>>, <<310,100,50>>,
    <<310,100,70>>, <<310,100,90>>, <<312,100,75>>, <<314,100,50>>, <<320,20,75>>, <<324,100,25>>,
    <<325,25,48>>, <<325,40,75>>, <<325,50,40>>, <<325,50,60>>, <<325,80,50>>, <<325,100,20>>,
    <<325,100,56>>, <<325,100,64>>, <<325,100,72>>, <<325,100,80>>, <<325,100,88>>, <<325,100,96>>,
    <<326,50,75>>, <<326,100,50>>, <<328,100,75>>, <<330,47,90>>, <<330,49,90>>, <<330,51,90>>,
    <<330,53,90>>, <<330,55,90>>, <<335,25,84>>, <<338,25,25>>, <<338,50,50>>, <<338,75,75>>,
    <<338,100,50>>, <<340,20,25>>, <<340,40,50>>, <<340,50,4>>, <<340,50,12>>, <<340,50,20>>,
    <<340,50,28>>, <<340,50,36>>, <<340,50,44>>, <<340,50,80>>, <<340,60,75>>, <<340,75,40>>,
    <<340,75,60>>, <<340,80,50>>, <<340,100,5>>, <<340,100,15>>, <<340,100,25>>, <<340,100,35>>,
    <<340,100,45>>, <<342,100,50>>, <<345,75,16>>, <<350,100,94>>, <<354,50,50>>, <<354,75,25>>,
    <<354,100,50>>, <<355,5,84>>, <<355,10,60>>, <<355,16,50>>, <<355,20,4>>, <<355,20,12>>,
    <<355,20,36>>, <<355,20,44>>, <<355,20,80>>, <<355,30,40>>, <<355,30,60>>, <<355,32,50>>,
    <<355,40,5>>, <<355,40,15>>, <<355,40,25>>, <<355,40,35>>, <<355,40,45>>, <<355,45,16>>,
    <<355,45,48>>, <<355,48,50>>, <<355,50,40>>, <<355,50,60>>, <<355,55,52>>, <<355,55,84>>,
    <<355,56,75>>, <<355,60,20>>, <<355,64,50>>, <<355,70,8>>, <<355,70,24>>, <<355,70,40>>,
    <<355,70,60>>, <<355,72,25>>, <<355,80,10>>, <<355,80,30>>, <<355,80,50>>, <<355,80,54>>,
    <<355,80,58>>, <<355,80,62>>, <<355,80,66>>, <<355,80,70>>, <<355,80,74>>, <<355,80,82>>,
    <<355,80,86>>, <<355,80,94>>, <<355,88,75>>, <<355,90,40>>, <<355,90,60>>, <<355,95,16>>,
    <<355,95,48>>, <<355,96,50>>, <<355,100,20>>, <<356,100,25>>, <<358,100,50>>
    }

\* x.toString(16), padded to two digits, for the three channels.
rgbToHex(r, g, b) ==
    << "#", LowerDigits[(r \div 16) + 1], LowerDigits[(r % 16) + 1],
            LowerDigits[(g \div 16) + 1], LowerDigits[(g % 16) + 1],
            LowerDigits[(b \div 16) + 1], LowerDigits[(b % 16) + 1] >>

\* hexToHsl of the store: hexToRgb, then the same arithmetic as hexToHsl.
storeHexToHsl(hex) ==
    LET rgb == hexToRgb(hex) IN HslOf(rgb.r, rgb.g, rgb.b)

\* hslToHex of the store, h in 0..360, s and l in 0..100.  No branch of the
\* sector chain takes h = 360: r, g and b stay 0 there.
storeHslToHex(h, s, l) ==
    LET A == 100 - (IF 2 * l >= 100 THEN 2 * l - 100 ELSE 100 - 2 * l)
        hm == h % 120
        B == 60 - (IF hm >= 60 THEN hm - 60 ELSE 60 - hm)
        Round(n, below) ==
            IF below THEN RoundDiv(255 * n, 600000) - 1
                     ELSE RoundDiv(255 * n, 600000)
        c == Round(30 * (200 * l + A * s), <<s, l>> \in StoreChromaBelowHalf)
        x == Round(A * s * B + 30 * (200 * l - A * s),
                   <<h, s, l>> \in StoreMidBelowHalf)
        m == Round(30 * (200 * l - A * s), <<s, l>> \in StoreMinBelowHalf)
    IN  IF 0 <= h /\ h < 60 THEN rgbToHex(c, x, m)
        ELSE IF 60 <= h /\ h < 120 THEN rgbToHex(x, c, m)
        ELSE IF 120 <= h /\ h < 180 THEN rgbToHex(m, c, x)
        ELSE IF 180 <= h /\ h < 240 THEN rgbToHex(m, x, c)
        ELSE IF 240 <= h /\ h < 300 THEN rgbToHex(x, m, c)
        ELSE IF 300 <= h /\ h < 360 THEN rgbToHex(c, m, x)
        ELSE rgbToHex(m, m, m)

generateAnalogous(base) ==
    LET WithHsl(baseHsl) ==
        [k \in 1..5 |->
            storeHslToHex((baseHsl.h + (k - 3) * 30 + 360) % 360,
                          baseHsl.s, baseHsl.l)]
    IN  WithHsl(storeHexToHsl(base))

generateComplementary(base) ==
    LET WithHsl(baseHsl) ==
        << base,
           storeHslToHex((baseHsl.h + 180) % 360, baseHsl.s, baseHsl.l) >>
    IN  WithHsl(storeHexToHsl(base))

generateTriadic(base) ==
    LET WithHsl(baseHsl) ==
        << base,
           storeHslToHex((baseHsl.h + 120) % 360, baseHsl.s, baseHsl.l),
           storeHslToHex((baseHsl.h + 240) % 360, baseHsl.s, baseHsl.l) >>
    IN  WithHsl(storeHexToHsl(base))

generateSplitComplementary(base) ==
    LET WithHsl(baseHsl) ==
        LET complementaryHue == (baseHsl.h + 180) % 360
        IN  << base,
               storeHslToHex((complementaryHue + 30) % 360, baseHsl.s, baseHsl.l),
               storeHslToHex((complementaryHue - 30 + 360) % 360,
                             baseHsl.s, baseHsl.l) >>
    IN  WithHsl(storeHexToHsl(base))

generateTetradic(base) ==
    LET WithHsl(baseHsl) ==
        << base,
           storeHslToHex((baseHsl.h + 90) % 360, baseHsl.s, baseHsl.l),
           storeHslToHex((baseHsl.h + 180) % 360, baseHsl.s, baseHsl.l),
           storeHslToHex((baseHsl.h + 270) % 360, baseHsl.s, baseHsl.l) >>
    IN  WithHsl(storeHexToHsl(base))

generateMonochromatic(base) ==
    LET WithHsl(baseHsl) ==
        [k \in 1..5 |->
            storeHslToHex(baseHsl.h, baseHsl.s, 10 + (k - 1) * 20)]
    IN  WithHsl(storeHexToHsl(base))

\* generateLuminosityContrast of the store.
storeGenerateLuminosityContrast(base, lightness) ==
    LET WithHsl(baseHsl) == storeHslToHex(baseHsl.h, baseHsl.s, lightness)
    IN  WithHsl(storeHexToHsl(base))

\* The schemes array of generateRandomPalette, by index 0 .. 4.
RandomScheme(index, base) ==
    CASE index = 0 -> generateAnalogous(base)
      [] index = 1 -> generateComplementary(base)
      [] index = 2 -> generateTriadic(base)
      [] index = 3 -> generateTetradic(base)
      [] index = 4 -> generateMonochromatic(base)

Gray900 == <<"#","1","1","1","8","2","7">>
Gray50  == <<"#","f","9","f","a","f","b">>

\* The record generateRandomPalette builds from the colours of the drawn
\* scheme (lines 283-291).
PaletteOf(name, colors) ==
    LET primaryColor == colors[1]
    IN  [name |-> name,
         colors |-> colors,
         primary |-> primaryColor,
         secondary |-> IF Len(colors) >= 2 THEN colors[2] ELSE primaryColor,
         accent |-> IF Len(colors) >= 3 THEN colors[3]
                    ELSE IF Len(colors) >= 2 THEN colors[2]
                    ELSE primaryColor,
         background |-> IF getContrastText(primaryColor) = WhiteLower
                        THEN Gray900 ELSE Gray50,
         text |-> getContrastText(primaryColor)]

\* name || `Palette ${Math.floor(Math.random() * 1000)}` (line 284); number
\* is the value of Math.floor(Math.random() * 1000), read only when name is
\* the empty string.
NameOrNumbered(name, number) ==
    IF name = "" THEN "Palette " \o ToString(number) ELSE name

\* generateRandomPalette with the accent bound to the readable-text colour.
generateRandomPalette_AccentOutside(name, base, index, number) ==
    CHOOSE pal \in {[PaletteOf(NameOrNumbered(name, number), colors) EXCEPT
                        !.accent = getContrastText(colors[1])] :
                    colors \in {RandomScheme(index, base)}} : TRUE

\* generateRandomPalette(name); base is the value getRandomColor() returned,
\* index that of Math.floor(Math.random() * schemes.length) and number that
\* of Math.floor(Math.random() * 1000).  The colours of the scheme are
\* computed once, as const colors of line 279.
generateRandomPalette(name, base, index, number) ==
    CHOOSE pal \in {PaletteOf(NameOrNumbered(name, number), colors) :
                    colors \in {RandomScheme(index, base)}} : TRUE

-----------------------------------------------------------------------------
(* The ColorPaletteGenerator component of src/unnamed/part_004 inside the  *)
(* ThemeProvider of src/src/contexts/ThemeContext.tsx.  Its local hexToHsl *)
(* and hslToHex (lines 156-225) are those of part_001 (hexToHsl without    *)
(* the fallback branch leaves r = g = b = 0, which gives the same          *)
(* {h:0, s:0, l:0}); every other colour function is imported from the      *)
(* colour utilities of the store.                                          *)

\* defaultPalette of ThemeContext.tsx.
defaultPalette ==
    [name |-> "Default",
     colors |-> << <<"#","3","b","8","2","f","6">>, <<"#","6","0","a","5","f","a">>,
                   <<"#","9","3","c","5","f","d">>, <<"#","b","f","d","b","f","e">>,
                   <<"#","d","b","e","a","f","e">> >>,
     primary |-> <<"#","3","b","8","2","f","6">>,
     secondary |-> <<"#","6","0","a","5","f","a">>,
     accent |-> <<"#","9","3","c","5","f","d">>,
     background |-> <<"#","f","f","f","f","f","f">>,
     text |-> <<"#","1","1","1","8","2","7">>]

\* generateLuminosityContrast of the component.
generateLuminosityContrast(hex, lightness) ==
    LET WithHsl(hsl) == hslToHex(hsl.h, hsl.s, lightness)
    IN  WithHsl(hexToHsl(hex))

\* [{hex: base}, ...colors.slice(1).map((color, i) => `${label} ${i + 1}`)]
BaseAndRest(hex, baseLabel, colors, label) ==
    [k \in 1..Len(colors) |->
        IF k = 1 THEN Color(hex, baseLabel)
        ELSE Color(colors[k], label \o " " \o ToString(k - 1))]

generateAdvancedPalette(hex, sch) ==
    CASE sch = "LuminosityContrast" ->
           Reverse([i \in 1..7 |->
               Color(generateLuminosityContrast(hex, luminositySteps[i]),
                     luminosityLabels[i])])
      [] sch = "MonochromaticAchromatic" ->
           << Color(hex, "Base (Accento)"),
              Color(White, "Neutro (Bianco)"),
              Color(LightGray, "Neutro (Grigio Chiaro)"),
              Color(DarkGray, "Neutro (Grigio Scuro)"),
              Color(Black, "Neutro (Nero)") >>
      [] sch = "Monochromatic" ->
           BaseAndRest(hex, "Base (Originale)", generateMonochromatic(hex), "Mono")
      [] sch = "Analogous" ->
           BaseAndRest(hex, "Base", generateAnalogous(hex), "Analogo")
      [] sch = "Complementary" ->
           BaseAndRest(hex, "Base", generateComplementary(hex), "Complementare")
      [] sch = "Triadic" ->
           BaseAndRest(hex, "Base", generateTriadic(hex), "Triadico")
      [] sch = "SplitComplementary" ->
           BaseAndRest(hex, "Base", generateSplitComplementary(hex), "Split Comp.")
      [] sch = "Tetradic" ->
           BaseAndRest(hex, "Base", generateTetradic(hex), "Tetradico")

\* The characters (UTF-16 code units outside the surrogates) that
\* String.prototype.toUpperCase changes under Unicode 17, each with the
\* characters it becomes: one for most, two or three for some ("ß"
\* becomes "SS").
UpperCaseTable == {
    <<"a", <<"A">>>>, <<"b", <<"B">>>>, <<"c", <<"C">>>>, <<"d", <<"D">>>>,
    <<"e", <<"E">>>>, <<"f", <<"F">>>>, <<"g", <<"G">>>>, <<"h", <<"H">>>>,
    <<"i", <<"I">>>>, <<"j", <<"J">>>>, <<"k", <<"K">>>>, <<"l", <<"L">>>>,
    <<"m", <<"M">>>>, <<"n", <<"N">>>>, <<"o", <<"O">>>>, <<"p", <<"P">>>>,
    <<"q", <<"Q">>>>, <<"r", <<"R">>>>, <<"s", <<"S">>>>, <<"t", <<"T">>>>,
    <<"u", <<"U">>>>, <<"v", <<"V">>>>, <<"w", <<"W">>>>, <<"x", <<"X">>>>,
    <<"y", <<"Y">>>>, <<"z", <<"Z">>>>, <<"µ", <<"Μ">>>>, <<"ß", <<"S", "S">>>>,
    <<"à", <<"À">>>>, <<"á", <<"Á">>>>, <<"â", <<"Â">>>>, <<"ã", <<"Ã">>>>,
    <<"ä", <<"Ä">>>>, <<"å", <<"Å">>>>, <<"æ", <<"Æ">>>>, <<"ç", <<"Ç">>>>,
    <<"è", <<"È">>>>, <<"é", <<"É">>>>, <<"ê", <<"Ê">>>>, <<"ë", <<"Ë">>>>,
    <<"ì", <<"Ì">>>>, <<"í", <<"Í">>>>, <<"î", <<"Î">>>>, <<"ï", <<"Ï">>>>,
    <<"ð", <<"Ð">>>>, <<"ñ", <<"Ñ">>>>, <<"ò", <<"Ò">>>>, <<"ó", <<"Ó">>>>,
    <<"ô", <<"Ô">>>>, <<"õ", <<"Õ">>>>, <<"ö", <<"Ö">>>>, <<"ø", <<"Ø">>>>,
    <<"ù", <<"Ù">>>>, <<"ú", <<"Ú">>>>, <<"û", <<"Û">>>>, <<"ü", <<"Ü">>>>,
    <<"ý", <<"Ý">>>>, <<"þ", <<"Þ">>>>, <<"ÿ", <<"U+0178">>>>, <<"U+0101", <<"U+0100">>>>,
    <<"U+0103", <<"U+0102">>>>, <<"U+0105", <<"U+0104">>>>, <<"U+0107", <<"U+0106">>>>, <<"U+0109", <<"U+0108">>>>,
    <<"U+010B", <<"U+010A">>>>, <<"U+010D", <<"U+010C">>>>, <<"U+010F", <<"U+010E">>>>, <<"U+0111", <<"U+0110">>>>,
    <<"U+0113", <<"U+0112">>>>, <<"U+0115", <<"U+0114">>>>, <<"U+0117", <<"U+0116">>>>, <<"U+0119", <<"U+0118">>>>,
    <<"U+011B", <<"U+011A">>>>, <<"U+011D", <<"U+011C">>>>, <<"U+011F", <<"U+011E">>>>, <<"U+0121", <<"U+0120">>>>,
    <<"U+0123", <<"U+0122">>>>, <<"U+0125", <<"U+0124">>>>, <<"U+0127", <<"U+0126">>>>, <<"U+0129", <<"U+0128">>>>,
    <<"U+012B", <<"U+012A">>>>, <<"U+012D", <<"U+012C">>>>, <<"U+012F", <<"U+012E">>>>, <<"U+0131", <<"I">>>>,
    <<"U+0133", <<"U+0132">>>>, <<"U+0135", <<"U+0134">>>>, <<"U+0137", <<"U+0136">>>>, <<"U+013A", <<"U+0139">>>>,
    <<"U+013C", <<"U+013B">>>>, <<"U+013E", <<"U+013D">>>>, <<"U+0140", <<"U+013F">>>>, <<"U+0142", <<"U+0141">>>>,
    <<"U+0144", <<"U+0143">>>>, <<"U+0146", <<"U+0145">>>>, <<"U+0148", <<"U+0147">>>>, <<"U+0149", <<"ʼ", "N">>>>,
    <<"U+014B", <<"U+014A">>>>, <<"U+014D", <<"U+014C">>>>, <<"U+014F", <<"U+014E">>>>, <<"U+0151", <<"U+0150">>>>,
    <<"U+0153", <<"U+0152">>>>, <<"U+0155", <<"U+0154">>>>, <<"U+0157", <<"U+0156">>>>, <<"U+0159", <<"U+0158">>>>,
    <<"U+015B", <<"U+015A">>>>, <<"U+015D", <<"U+015C">>>>, <<"U+015F", <<"U+015E">>>>, <<"U+0161", <<"U+0160">>>>,
    <<"U+0163", <<"U+0162">>>>, <<"U+0165", <<"U+0164">>>>, <<"U+0167", <<"U+0166">>>>, <<"U+0169", <<"U+0168">>>>,
    <<"U+016B", <<"U+016A">>>>, <<"U+016D", <<"U+016C">>>>, <<"U+016F", <<"U+016E">>>>, <<"U+0171", <<"U+0170">>>>,
    <<"U+0173", <<"U+0172">>>>, <<"U+0175", <<"U+0174">>>>, <<"U+0177", <<"U+0176">>>>, <<"U+017A", <<"U+0179">>>>,
    <<"U+017C", <<"U+017B">>>>, <<"U+017E", <<"U+017D">>>>, <<"U+017F", <<"S">>>>, <<"ƀ", <<"U+0243">>>>,
    <<"ƃ", <<"Ƃ">>>>, <<"ƅ", <<"Ƅ">>>>, <<"ƈ", <<"Ƈ">>>>, <<"ƌ", <<"Ƌ">>>>,
    <<"ƒ", <<"Ƒ">>>>, <<"ƕ", <<"Ƕ">>>>, <<"ƙ", <<"Ƙ">>>>, <<"ƚ", <<"U+023D">>>>,
    <<"ƞ", <<"U+0220">>>>, <<"ơ", <<"Ơ">>>>, <<"ƣ", <<"Ƣ">>>>, <<"ƥ", <<"Ƥ">>>>,
    <<"ƨ", <<"Ƨ">>>>, <<"ƭ", <<"Ƭ">>>>, <<"ư", <<"Ư">>>>, <<"ƴ", <<"Ƴ">>>>,
    <<"ƶ", <<"Ƶ">>>>, <<"ƹ", <<"Ƹ">>>>, <<"ƽ", <<"Ƽ">>>>, <<"ƿ", <<"Ƿ">>>>,
    <<"ǅ", <<"Ǆ">>>>, <<"ǆ", <<"Ǆ">>>>, <<"ǈ", <<"Ǉ">>>>, <<"ǉ", <<"Ǉ">>>>,
    <<"ǋ", <<"Ǌ">>>>, <<"ǌ", <<"Ǌ">>>>, <<"ǎ", <<"Ǎ">>>>, <<"ǐ", <<"Ǐ">>>>,
    <<"ǒ", <<"Ǒ">>>>, <<"ǔ", <<"Ǔ">>>>, <<"ǖ", <<"Ǖ">>>>, <<"ǘ", <<"Ǘ">>>>,
    <<"ǚ", <<"Ǚ">>>>, <<"ǜ", <<"Ǜ">>>>, <<"ǝ", <<"Ǝ">>>>, <<"ǟ", <<"Ǟ">>>>,
    <<"ǡ", <<"Ǡ">>>>, <<"ǣ", <<"Ǣ">>>>, <<"ǥ", <<"Ǥ">>>>, <<"ǧ", <<"Ǧ">>>>,
    <<"ǩ", <<"Ǩ">>>>, <<"ǫ", <<"Ǫ">>>>, <<"ǭ", <<"Ǭ">>>>, <<"ǯ", <<"Ǯ">>>>,
    <<"ǰ", <<"J", "U+030C">>>>, <<"ǲ", <<"Ǳ">>>>, <<"ǳ", <<"Ǳ">>>>, <<"ǵ", <<"Ǵ">>>>,
    <<"ǹ", <<"Ǹ">>>>, <<"ǻ", <<"Ǻ">>>>, <<"ǽ", <<"Ǽ">>>>, <<"ǿ", <<"Ǿ">>>>,
    <<"U+0201", <<"U+0200">>>>, <<"U+0203", <<"U+0202">>>>, <<"U+0205", <<"U+0204">>>>, <<"U+0207", <<"U+0206">>>>,
    <<"U+0209", <<"U+0208">>>>, <<"U+020B", <<"U+020A">>>>, <<"U+020D", <<"U+020C">>>>, <<"U+020F", <<"U+020E">>>>,
    <<"U+0211", <<"U+0210">>>>, <<"U+0213", <<"U+0212">>>>, <<"U+0215", <<"U+0214">>>>, <<"U+0217", <<"U+0216">>>>,
    <<"U+0219", <<"U+0218">>>>, <<"U+021B", <<"U+021A">>>>, <<"U+021D", <<"U+021C">>>>, <<"U+021F", <<"U+021E">>>>,
    <<"U+0223", <<"U+0222">>>>, <<"U+0225", <<"U+0224">>>>, <<"U+0227", <<"U+0226">>>>, <<"U+0229", <<"U+0228">>>>,
    <<"U+022B", <<"U+022A">>>>, <<"U+022D", <<"U+022C">>>>, <<"U+022F", <<"U+022E">>>>, <<"U+0231", <<"U+0230">>>>,
    <<"U+0233", <<"U+0232">>>>, <<"U+023C", <<"U+023B">>>>, <<"U+023F", <<"U+2C7E">>>>, <<"U+0240", <<"U+2C7F">>>>,
    <<"U+0242", <<"U+0241">>>>, <<"U+0247", <<"U+0246">>>>, <<"U+0249", <<"U+0248">>>>, <<"U+024B", <<"U+024A">>>>,
    <<"U+024D", <<"U+024C">>>>, <<"U+024F", <<"U+024E">>>>, <<"U+0250", <<"U+2C6F">>>>, <<"U+0251", <<"U+2C6D">>>>,
    <<"U+0252", <<"U+2C70">>>>, <<"U+0253", <<"Ɓ">>>>, <<"U+0254", <<"Ɔ">>>>, <<"U+0256", <<"Ɖ">>>>,
    <<"U+0257", <<"Ɗ">>>>, <<"U+0259", <<"Ə">>>>, <<"U+025B", <<"Ɛ">>>>, <<"U+025C", <<"Ɜ">>>>,
    <<"U+0260", <<"Ɠ">>>>, <<"U+0261", <<"Ɡ">>>>, <<"U+0263", <<"Ɣ">>>>, <<"U+0265", <<"Ɥ">>>>,
    <<"U+0266", <<"Ɦ">>>>, <<"U+0268", <<"Ɨ">>>>, <<"U+0269", <<"Ɩ">>>>, <<"U+026A", <<"Ɪ">>>>,
    <<"U+026B", <<"U+2C62">>>>, <<"U+026C", <<"Ɬ">>>>, <<"U+026F", <<"Ɯ">>>>, <<"U+0271", <<"U+2C6E">>>>,
    <<"U+0272", <<"Ɲ">>>>, <<"U+0275", <<"Ɵ">>>>, <<"U+027D", <<"U+2C64">>>>, <<"ʀ", <<"Ʀ">>>>,
    <<"ʂ", <<"Ʂ">>>>, <<"ʃ", <<"Ʃ">>>>, <<"ʇ", <<"Ʇ">>>>, <<"ʈ", <<"Ʈ">>>>,
    <<"ʉ", <<"U+0244">>>>, <<"ʊ", <<"Ʊ">>>>, <<"ʋ", <<"Ʋ">>>>, <<"ʌ", <<"U+0245">>>>,
    <<"ʒ", <<"Ʒ">>>>, <<"ʝ", <<"Ʝ">>>>, <<"ʞ", <<"Ʞ">>>>, <<"U+0345", <<"Ι">>>>,
    <<"U+0371", <<"U+0370">>>>, <<"U+0373", <<"U+0372">>>>, <<"U+0377", <<"U+0376">>>>, <<"U+037B", <<"Ͻ">>>>,
    <<"U+037C", <<"Ͼ">>>>, <<"U+037D", <<"Ͽ">>>>, <<"ΐ", <<"Ι", "U+0308", "U+0301">>>>, <<"ά", <<"Ά">>>>,
    <<"έ", <<"Έ">>>>, <<"ή", <<"Ή">>>>, <<"ί", <<"Ί">>>>, <<"ΰ", <<"Υ", "U+0308", "U+0301">>>>,
    <<"α", <<"Α">>>>, <<"β", <<"Β">>>>, <<"γ", <<"Γ">>>>, <<"δ", <<"Δ">>>>,
    <<"ε", <<"Ε">>>>, <<"ζ", <<"Ζ">>>>, <<"η", <<"Η">>>>, <<"θ", <<"Θ">>>>,
    <<"ι", <<"Ι">>>>, <<"κ", <<"Κ">>>>, <<"λ", <<"Λ">>>>, <<"μ", <<"Μ">>>>,
    <<"ν", <<"Ν">>>>, <<"ξ", <<"Ξ">>>>, <<"ο", <<"Ο">>>>, <<"π", <<"Π">>>>,
    <<"ρ", <<"Ρ">>>>, <<"ς", <<"Σ">>>>, <<"σ", <<"Σ">>>>, <<"τ", <<"Τ">>>>,
    <<"υ", <<"Υ">>>>, <<"φ", <<"Φ">>>>, <<"χ", <<"Χ">>>>, <<"ψ", <<"Ψ">>>>,
    <<"ω", <<"Ω">>>>, <<"ϊ", <<"Ϊ">>>>, <<"ϋ", <<"Ϋ">>>>, <<"ό", <<"Ό">>>>,
    <<"ύ", <<"Ύ">>>>, <<"ώ", <<"Ώ">>>>, <<"ϐ", <<"Β">>>>, <<"ϑ", <<"Θ">>>>,
    <<"ϕ", <<"Φ">>>>, <<"ϖ", <<"Π">>>>, <<"ϗ", <<"Ϗ">>>>, <<"ϙ", <<"Ϙ">>>>,
    <<"ϛ", <<"Ϛ">>>>, <<"ϝ", <<"Ϝ">>>>, <<"ϟ", <<"Ϟ">>>>, <<"ϡ", <<"Ϡ">>>>,
    <<"ϣ", <<"Ϣ">>>>, <<"ϥ", <<"Ϥ">>>>, <<"ϧ", <<"Ϧ">>>>, <<"ϩ", <<"Ϩ">>>>,
    <<"ϫ", <<"Ϫ">>>>, <<"ϭ", <<"Ϭ">>>>, <<"ϯ", <<"Ϯ">>>>, <<"ϰ", <<"Κ">>>>,
    <<"ϱ", <<"Ρ">>>>, <<"ϲ", <<"Ϲ">>>>, <<"ϳ", <<"U+037F">>>>, <<"ϵ", <<"Ε">>>>,
    <<"ϸ", <<"Ϸ">>>>, <<"ϻ", <<"Ϻ">>>>, <<"U+0430", <<"U+0410">>>>, <<"U+0431", <<"U+0411">>>>,
    <<"U+0432", <<"U+0412">>>>, <<"U+0433", <<"U+0413">>>>, <<"U+0434", <<"U+0414">>>>, <<"U+0435", <<"U+0415">>>>,
    <<"U+0436", <<"U+0416">>>>, <<"U+0437", <<"U+0417">>>>, <<"U+0438", <<"U+0418">>>>, <<"U+0439", <<"U+0419">>>>,
    <<"U+043A", <<"U+041A">>>>, <<"U+043B", <<"U+041B">>>>, <<"U+043C", <<"U+041C">>>>, <<"U+043D", <<"U+041D">>>>,
    <<"U+043E", <<"U+041E">>>>, <<"U+043F", <<"U+041F">>>>, <<"U+0440", <<"U+0420">>>>, <<"U+0441", <<"U+0421">>>>,
    <<"U+0442", <<"U+0422">>>>, <<"U+0443", <<"U+0423">>>>, <<"U+0444", <<"U+0424">>>>, <<"U+0445", <<"U+0425">>>>,
    <<"U+0446", <<"U+0426">>>>, <<"U+0447", <<"U+0427">>>>, <<"U+0448", <<"U+0428">>>>, <<"U+0449", <<"U+0429">>>>,
    <<"U+044A", <<"U+042A">>>>, <<"U+044B", <<"U+042B">>>>, <<"U+044C", <<"U+042C">>>>, <<"U+044D", <<"U+042D">>>>,
    <<"U+044E", <<"U+042E">>>>, <<"U+044F", <<"U+042F">>>>, <<"U+0450", <<"U+0400">>>>, <<"U+0451", <<"U+0401">>>>,
    <<"U+0452", <<"U+0402">>>>, <<"U+0453", <<"U+0403">>>>, <<"U+0454", <<"U+0404">>>>, <<"U+0455", <<"U+0405">>>>,
    <<"U+0456", <<"U+0406">>>>, <<"U+0457", <<"U+0407">>>>, <<"U+0458", <<"U+0408">>>>, <<"U+0459", <<"U+0409">>>>,
    <<"U+045A", <<"U+040A">>>>, <<"U+045B", <<"U+040B">>>>, <<"U+045C", <<"U+040C">>>>, <<"U+045D", <<"U+040D">>>>,
    <<"U+045E", <<"U+040E">>>>, <<"U+045F", <<"U+040F">>>>, <<"U+0461", <<"U+0460">>>>, <<"U+0463", <<"U+0462">>>>,
    <<"U+0465", <<"U+0464">>>>, <<"U+0467", <<"U+0466">>>>, <<"U+0469", <<"U+0468">>>>, <<"U+046B", <<"U+046A">>>>,
    <<"U+046D", <<"U+046C">>>>, <<"U+046F", <<"U+046E">>>>, <<"U+0471", <<"U+0470">>>>, <<"U+0473", <<"U+0472">>>>,
    <<"U+0475", <<"U+0474">>>>, <<"U+0477", <<"U+0476">>>>, <<"U+0479", <<"U+0478">>>>, <<"U+047B", <<"U+047A">>>>,
    <<"U+047D", <<"U+047C">>>>, <<"U+047F", <<"U+047E">>>>, <<"ҁ", <<"Ҁ">>>>, <<"ҋ", <<"Ҋ">>>>,
    <<"ҍ", <<"Ҍ">>>>, <<"ҏ", <<"Ҏ">>>>, <<"ґ", <<"Ґ">>>>, <<"ғ", <<"Ғ">>>>,
    <<"ҕ", <<"Ҕ">>>>, <<"җ", <<"Җ">>>>, <<"ҙ", <<"Ҙ">>>>, <<"қ", <<"Қ">>>>,
    <<"ҝ", <<"Ҝ">>>>, <<"ҟ", <<"Ҟ">>>>, <<"ҡ", <<"Ҡ">>>>, <<"ң", <<"Ң">>>>,
    <<"ҥ", <<"Ҥ">>>>, <<"ҧ", <<"Ҧ">>>>, <<"ҩ", <<"Ҩ">>>>, <<"ҫ", <<"Ҫ">>>>,
    <<"ҭ", <<"Ҭ">>>>, <<"ү", <<"Ү">>>>, <<"ұ", <<"Ұ">>>>, <<"ҳ", <<"Ҳ">>>>,
    <<"ҵ", <<"Ҵ">>>>, <<"ҷ", <<"Ҷ">>>>, <<"ҹ", <<"Ҹ">>>>, <<"һ", <<"Һ">>>>,
    <<"ҽ", <<"Ҽ">>>>, <<"ҿ", <<"Ҿ">>>>, <<"ӂ", <<"Ӂ">>>>, <<"ӄ", <<"Ӄ">>>>,
    <<"ӆ", <<"Ӆ">>>>, <<"ӈ", <<"Ӈ">>>>, <<"ӊ", <<"Ӊ">>>>, <<"ӌ", <<"Ӌ">>>>,
    <<"ӎ", <<"Ӎ">>>>, <<"ӏ", <<"Ӏ">>>>, <<"ӑ", <<"Ӑ">>>>, <<"ӓ", <<"Ӓ">>>>,
    <<"ӕ", <<"Ӕ">>>>, <<"ӗ", <<"Ӗ">>>>, <<"ә", <<"Ә">>>>, <<"ӛ", <<"Ӛ">>>>,
    <<"ӝ", <<"Ӝ">>>>, <<"ӟ", <<"Ӟ">>>>, <<"ӡ", <<"Ӡ">>>>, <<"ӣ", <<"Ӣ">>>>,
    <<"ӥ", <<"Ӥ">>>>, <<"ӧ", <<"Ӧ">>>>, <<"ө", <<"Ө">>>>, <<"ӫ", <<"Ӫ">>>>,
    <<"ӭ", <<"Ӭ">>>>, <<"ӯ", <<"Ӯ">>>>, <<"ӱ", <<"Ӱ">>>>, <<"ӳ", <<"Ӳ">>>>,
    <<"ӵ", <<"Ӵ">>>>, <<"ӷ", <<"Ӷ">>>>, <<"ӹ", <<"Ӹ">>>>, <<"ӻ", <<"Ӻ">>>>,
    <<"ӽ", <<"Ӽ">>>>, <<"ӿ", <<"Ӿ">>>>, <<"U+0501", <<"U+0500">>>>, <<"U+0503", <<"U+0502">>>>,
    <<"U+0505", <<"U+0504">>>>, <<"U+0507", <<"U+0506">>>>, <<"U+0509", <<"U+0508">>>>, <<"U+050B", <<"U+050A">>>>,
    <<"U+050D", <<"U+050C">>>>, <<"U+050F", <<"U+050E">>>>, <<"U+0511", <<"U+0510">>>>, <<"U+0513", <<"U+0512">>>>,
    <<"U+0515", <<"U+0514">>>>, <<"U+0517", <<"U+0516">>>>, <<"U+0519", <<"U+0518">>>>, <<"U+051B", <<"U+051A">>>>,
    <<"U+051D", <<"U+051C">>>>, <<"U+051F", <<"U+051E">>>>, <<"U+0521", <<"U+0520">>>>, <<"U+0523", <<"U+0522">>>>,
    <<"U+0525", <<"U+0524">>>>, <<"U+0527", <<"U+0526">>>>, <<"U+0529", <<"U+0528">>>>, <<"U+052B", <<"U+052A">>>>,
    <<"U+052D", <<"U+052C">>>>, <<"U+052F", <<"U+052E">>>>, <<"U+0561", <<"U+0531">>>>, <<"U+0562", <<"U+0532">>>>,
    <<"U+0563", <<"U+0533">>>>, <<"U+0564", <<"U+0534">>>>, <<"U+0565", <<"U+0535">>>>, <<"U+0566", <<"U+0536">>>>,
    <<"U+0567", <<"U+0537">>>>, <<"U+0568", <<"U+0538">>>>, <<"U+0569", <<"U+0539">>>>, <<"U+056A", <<"U+053A">>>>,
    <<"U+056B", <<"U+053B">>>>, <<"U+056C", <<"U+053C">>>>, <<"U+056D", <<"U+053D">>>>, <<"U+056E", <<"U+053E">>>>,
    <<"U+056F", <<"U+053F">>>>, <<"U+0570", <<"U+0540">>>>, <<"U+0571", <<"U+0541">>>>, <<"U+0572", <<"U+0542">>>>,
    <<"U+0573", <<"U+0543">>>>, <<"U+0574", <<"U+0544">>>>, <<"U+0575", <<"U+0545">>>>, <<"U+0576", <<"U+0546">>>>,
    <<"U+0577", <<"U+0547">>>>, <<"U+0578", <<"U+0548">>>>, <<"U+0579", <<"U+0549">>>>, <<"U+057A", <<"U+054A">>>>,
    <<"U+057B", <<"U+054B">>>>, <<"U+057C", <<"U+054C">>>>, <<"U+057D", <<"U+054D">>>>, <<"U+057E", <<"U+054E">>>>,
    <<"U+057F", <<"U+054F">>>>, <<"ր", <<"U+0550">>>>, <<"ց", <<"U+0551">>>>, <<"ւ", <<"U+0552">>>>,
    <<"փ", <<"U+0553">>>>, <<"ք", <<"U+0554">>>>, <<"օ", <<"U+0555">>>>, <<"ֆ", <<"U+0556">>>>,
    <<"և", <<"U+0535", "U+0552">>>>, <<"ა", <<"Ა">>>>, <<"ბ", <<"Ბ">>>>, <<"გ", <<"Გ">>>>,
    <<"დ", <<"Დ">>>>, <<"ე", <<"Ე">>>>, <<"ვ", <<"Ვ">>>>, <<"ზ", <<"Ზ">>>>,
    <<"თ", <<"Თ">>>>, <<"ი", <<"Ი">>>>, <<"კ", <<"Კ">>>>, <<"ლ", <<"Ლ">>>>,
    <<"მ", <<"Მ">>>>, <<"ნ", <<"Ნ">>>>, <<"ო", <<"Ო">>>>, <<"პ", <<"Პ">>>>,
    <<"ჟ", <<"Ჟ">>>>, <<"რ", <<"Რ">>>>, <<"ს", <<"Ს">>>>, <<"ტ", <<"Ტ">>>>,
    <<"უ", <<"Უ">>>>, <<"ფ", <<"Ფ">>>>, <<"ქ", <<"Ქ">>>>, <<"ღ", <<"Ღ">>>>,
    <<"ყ", <<"Ყ">>>>, <<"შ", <<"Შ">>>>, <<"ჩ", <<"Ჩ">>>>, <<"ც", <<"Ც">>>>,
    <<"ძ", <<"Ძ">>>>, <<"წ", <<"Წ">>>>, <<"ჭ", <<"Ჭ">>>>, <<"ხ", <<"Ხ">>>>,
    <<"ჯ", <<"Ჯ">>>>, <<"ჰ", <<"Ჰ">>>>, <<"ჱ", <<"Ჱ">>>>, <<"ჲ", <<"Ჲ">>>>,
    <<"ჳ", <<"Ჳ">>>>, <<"ჴ", <<"Ჴ">>>>, <<"ჵ", <<"Ჵ">>>>, <<"ჶ", <<"Ჶ">>>>,
    <<"ჷ", <<"Ჷ">>>>, <<"ჸ", <<"Ჸ">>>>, <<"ჹ", <<"Ჹ">>>>, <<"ჺ", <<"Ჺ">>>>,
    <<"ჽ", <<"Ჽ">>>>, <<"ჾ", <<"Ჾ">>>>, <<"ჿ", <<"Ჿ">>>>, <<"ᏸ", <<"Ᏸ">>>>,
    <<"ᏹ", <<"Ᏹ">>>>, <<"ᏺ", <<"Ᏺ">>>>, <<"ᏻ", <<"Ᏻ">>>>, <<"ᏼ", <<"Ᏼ">>>>,
    <<"ᏽ", <<"Ᏽ">>>>, <<"ᲀ", <<"U+0412">>>>, <<"ᲁ", <<"U+0414">>>>, <<"ᲂ", <<"U+041E">>>>,
    <<"ᲃ", <<"U+0421">>>>, <<"ᲄ", <<"U+0422">>>>, <<"ᲅ", <<"U+0422">>>>, <<"ᲆ", <<"U+042A">>>>,
    <<"ᲇ", <<"U+0462">>>>, <<"ᲈ", <<"U+A64A">>>>, <<"U+1D79", <<"U+A77D">>>>, <<"U+1D7D", <<"U+2C63">>>>,
    <<"ᶎ", <<"Ᶎ">>>>, <<"U+1E01", <<"U+1E00">>>>, <<"U+1E03", <<"U+1E02">>>>, <<"U+1E05", <<"U+1E04">>>>,
    <<"U+1E07", <<"U+1E06">>>>, <<"U+1E09", <<"U+1E08">>>>, <<"U+1E0B", <<"U+1E0A">>>>, <<"U+1E0D", <<"U+1E0C">>>>,
    <<"U+1E0F", <<"U+1E0E">>>>, <<"U+1E11", <<"U+1E10">>>>, <<"U+1E13", <<"U+1E12">>>>, <<"U+1E15", <<"U+1E14">>>>,
    <<"U+1E17", <<"U+1E16">>>>, <<"U+1E19", <<"U+1E18">>>>, <<"U+1E1B", <<"U+1E1A">>>>, <<"U+1E1D", <<"U+1E1C">>>>,
    <<"U+1E1F", <<"U+1E1E">>>>, <<"U+1E21", <<"U+1E20">>>>, <<"U+1E23", <<"U+1E22">>>>, <<"U+1E25", <<"U+1E24">>>>,
    <<"U+1E27", <<"U+1E26">>>>, <<"U+1E29", <<"U+1E28">>>>, <<"U+1E2B", <<"U+1E2A">>>>, <<"U+1E2D", <<"U+1E2C">>>>,
    <<"U+1E2F", <<"U+1E2E">>>>, <<"U+1E31", <<"U+1E30">>>>, <<"U+1E33", <<"U+1E32">>>>, <<"U+1E35", <<"U+1E34">>>>,
    <<"U+1E37", <<"U+1E36">>>>, <<"U+1E39", <<"U+1E38">>>>, <<"U+1E3B", <<"U+1E3A">>>>, <<"U+1E3D", <<"U+1E3C">>>>,
    <<"U+1E3F", <<"U+1E3E">>>>, <<"U+1E41", <<"U+1E40">>>>, <<"U+1E43", <<"U+1E42">>>>, <<"U+1E45", <<"U+1E44">>>>,
    <<"U+1E47", <<"U+1E46">>>>, <<"U+1E49", <<"U+1E48">>>>, <<"U+1E4B", <<"U+1E4A">>>>, <<"U+1E4D", <<"U+1E4C">>>>,
    <<"U+1E4F", <<"U+1E4E">>>>, <<"U+1E51", <<"U+1E50">>>>, <<"U+1E53", <<"U+1E52">>>>, <<"U+1E55", <<"U+1E54">>>>,
    <<"U+1E57", <<"U+1E56">>>>, <<"U+1E59", <<"U+1E58">>>>, <<"U+1E5B", <<"U+1E5A">>>>, <<"U+1E5D", <<"U+1E5C">>>>,
    <<"U+1E5F", <<"U+1E5E">>>>, <<"U+1E61", <<"U+1E60">>>>, <<"U+1E63", <<"U+1E62">>>>, <<"U+1E65", <<"U+1E64">>>>,
    <<"U+1E67", <<"U+1E66">>>>, <<"U+1E69", <<"U+1E68">>>>, <<"U+1E6B", <<"U+1E6A">>>>, <<"U+1E6D", <<"U+1E6C">>>>,
    <<"U+1E6F", <<"U+1E6E">>>>, <<"U+1E71", <<"U+1E70">>>>, <<"U+1E73", <<"U+1E72">>>>, <<"U+1E75", <<"U+1E74">>>>,
    <<"U+1E77", <<"U+1E76">>>>, <<"U+1E79", <<"U+1E78">>>>, <<"U+1E7B", <<"U+1E7A">>>>, <<"U+1E7D", <<"U+1E7C">>>>,
    <<"U+1E7F", <<"U+1E7E">>>>, <<"ẁ", <<"Ẁ">>>>, <<"ẃ", <<"Ẃ">>>>, <<"ẅ", <<"Ẅ">>>>,
    <<"ẇ", <<"Ẇ">>>>, <<"ẉ", <<"Ẉ">>>>, <<"ẋ", <<"Ẋ">>>>, <<"ẍ", <<"Ẍ">>>>,
    <<"ẏ", <<"Ẏ">>>>, <<"ẑ", <<"Ẑ">>>>, <<"ẓ", <<"Ẓ">>>>, <<"ẕ", <<"Ẕ">>>>,
    <<"ẖ", <<"H", "U+0331">>>>, <<"ẗ", <<"T", "U+0308">>>>, <<"ẘ", <<"W", "U+030A">>>>, <<"ẙ", <<"Y", "U+030A">>>>,
    <<"ẚ", <<"A", "ʾ">>>>, <<"ẛ", <<"U+1E60">>>>, <<"ạ", <<"Ạ">>>>, <<"ả", <<"Ả">>>>,
    <<"ấ", <<"Ấ">>>>, <<"ầ", <<"Ầ">>>>, <<"ẩ", <<"Ẩ">>>>, <<"ẫ", <<"Ẫ">>>>,
    <<"ậ", <<"Ậ">>>>, <<"ắ", <<"Ắ">>>>, <<"ằ", <<"Ằ">>>>, <<"ẳ", <<"Ẳ">>>>,
    <<"ẵ", <<"Ẵ">>>>, <<"ặ", <<"Ặ">>>>, <<"ẹ", <<"Ẹ">>>>, <<"ẻ", <<"Ẻ">>>>,
    <<"ẽ", <<"Ẽ">>>>, <<"ế", <<"Ế">>>>, <<"ề", <<"Ề">>>>, <<"ể", <<"Ể">>>>,
    <<"ễ", <<"Ễ">>>>, <<"ệ", <<"Ệ">>>>, <<"ỉ", <<"Ỉ">>>>, <<"ị", <<"Ị">>>>,
    <<"ọ", <<"Ọ">>>>, <<"ỏ", <<"Ỏ">>>>, <<"ố", <<"Ố">>>>, <<"ồ", <<"Ồ">>>>,
    <<"ổ", <<"Ổ">>>>, <<"ỗ", <<"Ỗ">>>>, <<"ộ", <<"Ộ">>>>, <<"ớ", <<"Ớ">>>>,
    <<"ờ", <<"Ờ">>>>, <<"ở", <<"Ở">>>>, <<"ỡ", <<"Ỡ">>>>, <<"ợ", <<"Ợ">>>>,
    <<"ụ", <<"Ụ">>>>, <<"ủ", <<"Ủ">>>>, <<"ứ", <<"Ứ">>>>, <<"ừ", <<"Ừ">>>>,
    <<"ử", <<"Ử">>>>, <<"ữ", <<"Ữ">>>>, <<"ự", <<"Ự">>>>, <<"ỳ", <<"Ỳ">>>>,
    <<"ỵ", <<"Ỵ">>>>, <<"ỷ", <<"Ỷ">>>>, <<"ỹ", <<"Ỹ">>>>, <<"ỻ", <<"Ỻ">>>>,
    <<"ỽ", <<"Ỽ">>>>, <<"ỿ", <<"Ỿ">>>>, <<"U+1F00", <<"U+1F08">>>>, <<"U+1F01", <<"U+1F09">>>>,
    <<"U+1F02", <<"U+1F0A">>>>, <<"U+1F03", <<"U+1F0B">>>>, <<"U+1F04", <<"U+1F0C">>>>, <<"U+1F05", <<"U+1F0D">>>>,
    <<"U+1F06", <<"U+1F0E">>>>, <<"U+1F07", <<"U+1F0F">>>>, <<"U+1F10", <<"U+1F18">>>>, <<"U+1F11", <<"U+1F19">>>>,
    <<"U+1F12", <<"U+1F1A">>>>, <<"U+1F13", <<"U+1F1B">>>>, <<"U+1F14", <<"U+1F1C">>>>, <<"U+1F15", <<"U+1F1D">>>>,
    <<"U+1F20", <<"U+1F28">>>>, <<"U+1F21", <<"U+1F29">>>>, <<"U+1F22", <<"U+1F2A">>>>, <<"U+1F23", <<"U+1F2B">>>>,
    <<"U+1F24", <<"U+1F2C">>>>, <<"U+1F25", <<"U+1F2D">>>>, <<"U+1F26", <<"U+1F2E">>>>, <<"U+1F27", <<"U+1F2F">>>>,
    <<"U+1F30", <<"U+1F38">>>>, <<"U+1F31", <<"U+1F39">>>>, <<"U+1F32", <<"U+1F3A">>>>, <<"U+1F33", <<"U+1F3B">>>>,
    <<"U+1F34", <<"U+1F3C">>>>, <<"U+1F35", <<"U+1F3D">>>>, <<"U+1F36", <<"U+1F3E">>>>, <<"U+1F37", <<"U+1F3F">>>>,
    <<"U+1F40", <<"U+1F48">>>>, <<"U+1F41", <<"U+1F49">>>>, <<"U+1F42", <<"U+1F4A">>>>, <<"U+1F43", <<"U+1F4B">>>>,
    <<"U+1F44", <<"U+1F4C">>>>, <<"U+1F45", <<"U+1F4D">>>>, <<"U+1F50", <<"Υ", "U+0313">>>>, <<"U+1F51", <<"U+1F59">>>>,
    <<"U+1F52", <<"Υ", "U+0313", "U+0300">>>>, <<"U+1F53", <<"U+1F5B">>>>, <<"U+1F54", <<"Υ", "U+0313", "U+0301">>>>, <<"U+1F55", <<"U+1F5D">>>>,
    <<"U+1F56", <<"Υ", "U+0313", "U+0342">>>>, <<"U+1F57", <<"U+1F5F">>>>, <<"U+1F60", <<"U+1F68">>>>, <<"U+1F61", <<"U+1F69">>>>,
    <<"U+1F62", <<"U+1F6A">>>>, <<"U+1F63", <<"U+1F6B">>>>, <<"U+1F64", <<"U+1F6C">>>>, <<"U+1F65", <<"U+1F6D">>>>,
    <<"U+1F66", <<"U+1F6E">>>>, <<"U+1F67", <<"U+1F6F">>>>, <<"U+1F70", <<"Ὰ">>>>, <<"U+1F71", <<"Ά">>>>,
    <<"U+1F72", <<"Ὲ">>>>, <<"U+1F73", <<"Έ">>>>, <<"U+1F74", <<"Ὴ">>>>, <<"U+1F75", <<"Ή">>>>,
    <<"U+1F76", <<"Ὶ">>>>, <<"U+1F77", <<"Ί">>>>, <<"U+1F78", <<"Ὸ">>>>, <<"U+1F79", <<"Ό">>>>,
    <<"U+1F7A", <<"Ὺ">>>>, <<"U+1F7B", <<"Ύ">>>>, <<"U+1F7C", <<"Ὼ">>>>, <<"U+1F7D", <<"Ώ">>>>,
    <<"ᾀ", <<"U+1F08", "Ι">>>>, <<"ᾁ", <<"U+1F09", "Ι">>>>, <<"ᾂ", <<"U+1F0A", "Ι">>>>, <<"ᾃ", <<"U+1F0B", "Ι">>>>,
    <<"ᾄ", <<"U+1F0C", "Ι">>>>, <<"ᾅ", <<"U+1F0D", "Ι">>>>, <<"ᾆ", <<"U+1F0E", "Ι">>>>, <<"ᾇ", <<"U+1F0F", "Ι">>>>,
    <<"ᾈ", <<"U+1F08", "Ι">>>>, <<"ᾉ", <<"U+1F09", "Ι">>>>, <<"ᾊ", <<"U+1F0A", "Ι">>>>, <<"ᾋ", <<"U+1F0B", "Ι">>>>,
    <<"ᾌ", <<"U+1F0C", "Ι">>>>, <<"ᾍ", <<"U+1F0D", "Ι">>>>, <<"ᾎ", <<"U+1F0E", "Ι">>>>, <<"ᾏ", <<"U+1F0F", "Ι">>>>,
    <<"ᾐ", <<"U+1F28", "Ι">>>>, <<"ᾑ", <<"U+1F29", "Ι">>>>, <<"ᾒ", <<"U+1F2A", "Ι">>>>, <<"ᾓ", <<"U+1F2B", "Ι">>>>,
    <<"ᾔ", <<"U+1F2C", "Ι">>>>, <<"ᾕ", <<"U+1F2D", "Ι">>>>, <<"ᾖ", <<"U+1F2E", "Ι">>>>, <<"ᾗ", <<"U+1F2F", "Ι">>>>,
    <<"ᾘ", <<"U+1F28", "Ι">>>>, <<"ᾙ", <<"U+1F29", "Ι">>>>, <<"ᾚ", <<"U+1F2A", "Ι">>>>, <<"ᾛ", <<"U+1F2B", "Ι">>>>,
    <<"ᾜ", <<"U+1F2C", "Ι">>>>, <<"ᾝ", <<"U+1F2D", "Ι">>>>, <<"ᾞ", <<"U+1F2E", "Ι">>>>, <<"ᾟ", <<"U+1F2F", "Ι">>>>,
    <<"ᾠ", <<"U+1F68", "Ι">>>>, <<"ᾡ", <<"U+1F69", "Ι">>>>, <<"ᾢ", <<"U+1F6A", "Ι">>>>, <<"ᾣ", <<"U+1F6B", "Ι">>>>,
    <<"ᾤ", <<"U+1F6C", "Ι">>>>, <<"ᾥ", <<"U+1F6D", "Ι">>>>, <<"ᾦ", <<"U+1F6E", "Ι">>>>, <<"ᾧ", <<"U+1F6F", "Ι">>>>,
    <<"ᾨ", <<"U+1F68", "Ι">>>>, <<"ᾩ", <<"U+1F69", "Ι">>>>, <<"ᾪ", <<"U+1F6A", "Ι">>>>, <<"ᾫ", <<"U+1F6B", "Ι">>>>,
    <<"ᾬ", <<"U+1F6C", "Ι">>>>, <<"ᾭ", <<"U+1F6D", "Ι">>>>, <<"ᾮ", <<"U+1F6E", "Ι">>>>, <<"ᾯ", <<"U+1F6F", "Ι">>>>,
    <<"ᾰ", <<"Ᾰ">>>>, <<"ᾱ", <<"Ᾱ">>>>, <<"ᾲ", <<"Ὰ", "Ι">>>>, <<"ᾳ", <<"Α", "Ι">>>>,
    <<"ᾴ", <<"Ά", "Ι">>>>, <<"ᾶ", <<"Α", "U+0342">>>>, <<"ᾷ", <<"Α", "U+0342", "Ι">>>>, <<"ᾼ", <<"Α", "Ι">>>>,
    <<"ι", <<"Ι">>>>, <<"ῂ", <<"Ὴ", "Ι">>>>, <<"ῃ", <<"Η", "Ι">>>>, <<"ῄ", <<"Ή", "Ι">>>>,
    <<"ῆ", <<"Η", "U+0342">>>>, <<"ῇ", <<"Η", "U+0342", "Ι">>>>, <<"ῌ", <<"Η", "Ι">>>>, <<"ῐ", <<"Ῐ">>>>,
    <<"ῑ", <<"Ῑ">>>>, <<"ῒ", <<"Ι", "U+0308", "U+0300">>>>, <<"ΐ", <<"Ι", "U+0308", "U+0301">>>>, <<"ῖ", <<"Ι", "U+0342">>>>,
    <<"ῗ", <<"Ι", "U+0308", "U+0342">>>>, <<"ῠ", <<"Ῠ">>>>, <<"ῡ", <<"Ῡ">>>>, <<"ῢ", <<"Υ", "U+0308", "U+0300">>>>,
    <<"ΰ", <<"Υ", "U+0308", "U+0301">>>>, <<"ῤ", <<"Ρ", "U+0313">>>>, <<"ῥ", <<"Ῥ">>>>, <<"ῦ", <<"Υ", "U+0342">>>>,
    <<"ῧ", <<"Υ", "U+0308", "U+0342">>>>, <<"ῲ", <<"Ὼ", "Ι">>>>, <<"ῳ", <<"Ω", "Ι">>>>, <<"ῴ", <<"Ώ", "Ι">>>>,
    <<"ῶ", <<"Ω", "U+0342">>>>, <<"ῷ", <<"Ω", "U+0342", "Ι">>>>, <<"ῼ", <<"Ω", "Ι">>>>, <<"U+214E", <<"U+2132">>>>,
    <<"U+2170", <<"U+2160">>>>, <<"U+2171", <<"U+2161">>>>, <<"U+2172", <<"U+2162">>>>, <<"U+2173", <<"U+2163">>>>,
    <<"U+2174", <<"U+2164">>>>, <<"U+2175", <<"U+2165">>>>, <<"U+2176", <<"U+2166">>>>, <<"U+2177", <<"U+2167">>>>,
    <<"U+2178", <<"U+2168">>>>, <<"U+2179", <<"U+2169">>>>, <<"U+217A", <<"U+216A">>>>, <<"U+217B", <<"U+216B">>>>,
    <<"U+217C", <<"U+216C">>>>, <<"U+217D", <<"U+216D">>>>, <<"U+217E", <<"U+216E">>>>, <<"U+217F", <<"U+216F">>>>,
    <<"ↄ", <<"Ↄ">>>>, <<"ⓐ", <<"Ⓐ">>>>, <<"ⓑ", <<"Ⓑ">>>>, <<"ⓒ", <<"Ⓒ">>>>,
    <<"ⓓ", <<"Ⓓ">>>>, <<"ⓔ", <<"Ⓔ">>>>, <<"ⓕ", <<"Ⓕ">>>>, <<"ⓖ", <<"Ⓖ">>>>,
    <<"ⓗ", <<"Ⓗ">>>>, <<"ⓘ", <<"Ⓘ">>>>, <<"ⓙ", <<"Ⓙ">>>>, <<"ⓚ", <<"Ⓚ">>>>,
    <<"ⓛ", <<"Ⓛ">>>>, <<"ⓜ", <<"Ⓜ">>>>, <<"ⓝ", <<"Ⓝ">>>>, <<"ⓞ", <<"Ⓞ">>>>,
    <<"ⓟ", <<"Ⓟ">>>>, <<"ⓠ", <<"Ⓠ">>>>, <<"ⓡ", <<"Ⓡ">>>>, <<"ⓢ", <<"Ⓢ">>>>,
    <<"ⓣ", <<"Ⓣ">>>>, <<"ⓤ", <<"Ⓤ">>>>, <<"ⓥ", <<"Ⓥ">>>>, <<"ⓦ", <<"Ⓦ">>>>,
    <<"ⓧ", <<"Ⓧ">>>>, <<"ⓨ", <<"Ⓨ">>>>, <<"ⓩ", <<"Ⓩ">>>>, <<"U+2C30", <<"U+2C00">>>>,
    <<"U+2C31", <<"U+2C01">>>>, <<"U+2C32", <<"U+2C02">>>>, <<"U+2C33", <<"U+2C03">>>>, <<"U+2C34", <<"U+2C04">>>>,
    <<"U+2C35", <<"U+2C05">>>>, <<"U+2C36", <<"U+2C06">>>>, <<"U+2C37", <<"U+2C07">>>>, <<"U+2C38", <<"U+2C08">>>>,
    <<"U+2C39", <<"U+2C09">>>>, <<"U+2C3A", <<"U+2C0A">>>>, <<"U+2C3B", <<"U+2C0B">>>>, <<"U+2C3C", <<"U+2C0C">>>>,
    <<"U+2C3D", <<"U+2C0D">>>>, <<"U+2C3E", <<"U+2C0E">>>>, <<"U+2C3F", <<"U+2C0F">>>>, <<"U+2C40", <<"U+2C10">>>>,
    <<"U+2C41", <<"U+2C11">>>>, <<"U+2C42", <<"U+2C12">>>>, <<"U+2C43", <<"U+2C13">>>>, <<"U+2C44", <<"U+2C14">>>>,
    <<"U+2C45", <<"U+2C15">>>>, <<"U+2C46", <<"U+2C16">>>>, <<"U+2C47", <<"U+2C17">>>>, <<"U+2C48", <<"U+2C18">>>>,
    <<"U+2C49", <<"U+2C19">>>>, <<"U+2C4A", <<"U+2C1A">>>>, <<"U+2C4B", <<"U+2C1B">>>>, <<"U+2C4C", <<"U+2C1C">>>>,
    <<"U+2C4D", <<"U+2C1D">>>>, <<"U+2C4E", <<"U+2C1E">>>>, <<"U+2C4F", <<"U+2C1F">>>>, <<"U+2C50", <<"U+2C20">>>>,
    <<"U+2C51", <<"U+2C21">>>>, <<"U+2C52", <<"U+2C22">>>>, <<"U+2C53", <<"U+2C23">>>>, <<"U+2C54", <<"U+2C24">>>>,
    <<"U+2C55", <<"U+2C25">>>>, <<"U+2C56", <<"U+2C26">>>>, <<"U+2C57", <<"U+2C27">>>>, <<"U+2C58", <<"U+2C28">>>>,
    <<"U+2C59", <<"U+2C29">>>>, <<"U+2C5A", <<"U+2C2A">>>>, <<"U+2C5B", <<"U+2C2B">>>>, <<"U+2C5C", <<"U+2C2C">>>>,
    <<"U+2C5D", <<"U+2C2D">>>>, <<"U+2C5E", <<"U+2C2E">>>>, <<"U+2C5F", <<"U+2C2F">>>>, <<"U+2C61", <<"U+2C60">>>>,
    <<"U+2C65", <<"U+023A">>>>, <<"U+2C66", <<"U+023E">>>>, <<"U+2C68", <<"U+2C67">>>>, <<"U+2C6A", <<"U+2C69">>>>,
    <<"U+2C6C", <<"U+2C6B">>>>, <<"U+2C73", <<"U+2C72">>>>, <<"U+2C76", <<"U+2C75">>>>, <<"ⲁ", <<"Ⲁ">>>>,
    <<"ⲃ", <<"Ⲃ">>>>, <<"ⲅ", <<"Ⲅ">>>>, <<"ⲇ", <<"Ⲇ">>>>, <<"ⲉ", <<"Ⲉ">>>>,
    <<"ⲋ", <<"Ⲋ">>>>, <<"ⲍ", <<"Ⲍ">>>>, <<"ⲏ", <<"Ⲏ">>>>, <<"ⲑ", <<"Ⲑ">>>>,
    <<"ⲓ", <<"Ⲓ">>>>, <<"ⲕ", <<"Ⲕ">>>>, <<"ⲗ", <<"Ⲗ">>>>, <<"ⲙ", <<"Ⲙ">>>>,
    <<"ⲛ", <<"Ⲛ">>>>, <<"ⲝ", <<"Ⲝ">>>>, <<"ⲟ", <<"Ⲟ">>>>, <<"ⲡ", <<"Ⲡ">>>>,
    <<"ⲣ", <<"Ⲣ">>>>, <<"ⲥ", <<"Ⲥ">>>>, <<"ⲧ", <<"Ⲧ">>>>, <<"ⲩ", <<"Ⲩ">>>>,
    <<"ⲫ", <<"Ⲫ">>>>, <<"ⲭ", <<"Ⲭ">>>>, <<"ⲯ", <<"Ⲯ">>>>, <<"ⲱ", <<"Ⲱ">>>>,
    <<"ⲳ", <<"Ⲳ">>>>, <<"ⲵ", <<"Ⲵ">>>>, <<"ⲷ", <<"Ⲷ">>>>, <<"ⲹ", <<"Ⲹ">>>>,
    <<"ⲻ", <<"Ⲻ">>>>, <<"ⲽ", <<"Ⲽ">>>>, <<"ⲿ", <<"Ⲿ">>>>, <<"ⳁ", <<"Ⳁ">>>>,
    <<"ⳃ", <<"Ⳃ">>>>, <<"ⳅ", <<"Ⳅ">>>>, <<"ⳇ", <<"Ⳇ">>>>, <<"ⳉ", <<"Ⳉ">>>>,
    <<"ⳋ", <<"Ⳋ">>>>, <<"ⳍ", <<"Ⳍ">>>>, <<"ⳏ", <<"Ⳏ">>>>, <<"ⳑ", <<"Ⳑ">>>>,
    <<"ⳓ", <<"Ⳓ">>>>, <<"ⳕ", <<"Ⳕ">>>>, <<"ⳗ", <<"Ⳗ">>>>, <<"ⳙ", <<"Ⳙ">>>>,
    <<"ⳛ", <<"Ⳛ">>>>, <<"ⳝ", <<"Ⳝ">>>>, <<"ⳟ", <<"Ⳟ">>>>, <<"ⳡ", <<"Ⳡ">>>>,
    <<"ⳣ", <<"Ⳣ">>>>, <<"ⳬ", <<"Ⳬ">>>>, <<"ⳮ", <<"Ⳮ">>>>, <<"ⳳ", <<"Ⳳ">>>>,
    <<"U+2D00", <<"Ⴀ">>>>, <<"U+2D01", <<"Ⴁ">>>>, <<"U+2D02", <<"Ⴂ">>>>, <<"U+2D03", <<"Ⴃ">>>>,
    <<"U+2D04", <<"Ⴄ">>>>, <<"U+2D05", <<"Ⴅ">>>>, <<"U+2D06", <<"Ⴆ">>>>, <<"U+2D07", <<"Ⴇ">>>>,
    <<"U+2D08", <<"Ⴈ">>>>, <<"U+2D09", <<"Ⴉ">>>>, <<"U+2D0A", <<"Ⴊ">>>>, <<"U+2D0B", <<"Ⴋ">>>>,
    <<"U+2D0C", <<"Ⴌ">>>>, <<"U+2D0D", <<"Ⴍ">>>>, <<"U+2D0E", <<"Ⴎ">>>>, <<"U+2D0F", <<"Ⴏ">>>>,
    <<"U+2D10", <<"Ⴐ">>>>, <<"U+2D11", <<"Ⴑ">>>>, <<"U+2D12", <<"Ⴒ">>>>, <<"U+2D13", <<"Ⴓ">>>>,
    <<"U+2D14", <<"Ⴔ">>>>, <<"U+2D15", <<"Ⴕ">>>>, <<"U+2D16", <<"Ⴖ">>>>, <<"U+2D17", <<"Ⴗ">>>>,
    <<"U+2D18", <<"Ⴘ">>>>, <<"U+2D19", <<"Ⴙ">>>>, <<"U+2D1A", <<"Ⴚ">>>>, <<"U+2D1B", <<"Ⴛ">>>>,
    <<"U+2D1C", <<"Ⴜ">>>>, <<"U+2D1D", <<"Ⴝ">>>>, <<"U+2D1E", <<"Ⴞ">>>>, <<"U+2D1F", <<"Ⴟ">>>>,
    <<"U+2D20", <<"Ⴠ">>>>, <<"U+2D21", <<"Ⴡ">>>>, <<"U+2D22", <<"Ⴢ">>>>, <<"U+2D23", <<"Ⴣ">>>>,
    <<"U+2D24", <<"Ⴤ">>>>, <<"U+2D25", <<"Ⴥ">>>>, <<"U+2D27", <<"Ⴧ">>>>, <<"U+2D2D", <<"Ⴭ">>>>,
    <<"U+A641", <<"U+A640">>>>, <<"U+A643", <<"U+A642">>>>, <<"U+A645", <<"U+A644">>>>, <<"U+A647", <<"U+A646">>>>,
    <<"U+A649", <<"U+A648">>>>, <<"U+A64B", <<"U+A64A">>>>, <<"U+A64D", <<"U+A64C">>>>, <<"U+A64F", <<"U+A64E">>>>,
    <<"U+A651", <<"U+A650">>>>, <<"U+A653", <<"U+A652">>>>, <<"U+A655", <<"U+A654">>>>, <<"U+A657", <<"U+A656">>>>,
    <<"U+A659", <<"U+A658">>>>, <<"U+A65B", <<"U+A65A">>>>, <<"U+A65D", <<"U+A65C">>>>, <<"U+A65F", <<"U+A65E">>>>,
    <<"U+A661", <<"U+A660">>>>, <<"U+A663", <<"U+A662">>>>, <<"U+A665", <<"U+A664">>>>, <<"U+A667", <<"U+A666">>>>,
    <<"U+A669", <<"U+A668">>>>, <<"U+A66B", <<"U+A66A">>>>, <<"U+A66D", <<"U+A66C">>>>, <<"ꚁ", <<"Ꚁ">>>>,
    <<"ꚃ", <<"Ꚃ">>>>, <<"ꚅ", <<"Ꚅ">>>>, <<"ꚇ", <<"Ꚇ">>>>, <<"ꚉ", <<"Ꚉ">>>>,
    <<"ꚋ", <<"Ꚋ">>>>, <<"ꚍ", <<"Ꚍ">>>>, <<"ꚏ", <<"Ꚏ">>>>, <<"ꚑ", <<"Ꚑ">>>>,
    <<"ꚓ", <<"Ꚓ">>>>, <<"ꚕ", <<"Ꚕ">>>>, <<"ꚗ", <<"Ꚗ">>>>, <<"ꚙ", <<"Ꚙ">>>>,
    <<"ꚛ", <<"Ꚛ">>>>, <<"U+A723", <<"U+A722">>>>, <<"U+A725", <<"U+A724">>>>, <<"U+A727", <<"U+A726">>>>,
    <<"U+A729", <<"U+A728">>>>, <<"U+A72B", <<"U+A72A">>>>, <<"U+A72D", <<"U+A72C">>>>, <<"U+A72F", <<"U+A72E">>>>,
    <<"U+A733", <<"U+A732">>>>, <<"U+A735", <<"U+A734">>>>, <<"U+A737", <<"U+A736">>>>, <<"U+A739", <<"U+A738">>>>,
    <<"U+A73B", <<"U+A73A">>>>, <<"U+A73D", <<"U+A73C">>>>, <<"U+A73F", <<"U+A73E">>>>, <<"U+A741", <<"U+A740">>>>,
    <<"U+A743", <<"U+A742">>>>, <<"U+A745", <<"U+A744">>>>, <<"U+A747", <<"U+A746">>>>, <<"U+A749", <<"U+A748">>>>,
    <<"U+A74B", <<"U+A74A">>>>, <<"U+A74D", <<"U+A74C">>>>, <<"U+A74F", <<"U+A74E">>>>, <<"U+A751", <<"U+A750">>>>,
    <<"U+A753", <<"U+A752">>>>, <<"U+A755", <<"U+A754">>>>, <<"U+A757", <<"U+A756">>>>, <<"U+A759", <<"U+A758">>>>,
    <<"U+A75B", <<"U+A75A">>>>, <<"U+A75D", <<"U+A75C">>>>, <<"U+A75F", <<"U+A75E">>>>, <<"U+A761", <<"U+A760">>>>,
    <<"U+A763", <<"U+A762">>>>, <<"U+A765", <<"U+A764">>>>, <<"U+A767", <<"U+A766">>>>, <<"U+A769", <<"U+A768">>>>,
    <<"U+A76B", <<"U+A76A">>>>, <<"U+A76D", <<"U+A76C">>>>, <<"U+A76F", <<"U+A76E">>>>, <<"U+A77A", <<"U+A779">>>>,
    <<"U+A77C", <<"U+A77B">>>>, <<"U+A77F", <<"U+A77E">>>>, <<"ꞁ", <<"Ꞁ">>>>, <<"ꞃ", <<"Ꞃ">>>>,
    <<"ꞅ", <<"Ꞅ">>>>, <<"ꞇ", <<"Ꞇ">>>>, <<"ꞌ", <<"Ꞌ">>>>, <<"ꞑ", <<"Ꞑ">>>>,
    <<"ꞓ", <<"Ꞓ">>>>, <<"ꞔ", <<"Ꞔ">>>>, <<"ꞗ", <<"Ꞗ">>>>, <<"ꞙ", <<"Ꞙ">>>>,
    <<"ꞛ", <<"Ꞛ">>>>, <<"ꞝ", <<"Ꞝ">>>>, <<"ꞟ", <<"Ꞟ">>>>, <<"ꞡ", <<"Ꞡ">>>>,
    <<"ꞣ", <<"Ꞣ">>>>, <<"ꞥ", <<"Ꞥ">>>>, <<"ꞧ", <<"Ꞧ">>>>, <<"ꞩ", <<"Ꞩ">>>>,
    <<"ꞵ", <<"Ꞵ">>>>, <<"ꞷ", <<"Ꞷ">>>>, <<"ꞹ", <<"Ꞹ">>>>, <<"ꞻ", <<"Ꞻ">>>>,
    <<"ꞽ", <<"Ꞽ">>>>, <<"ꞿ", <<"Ꞿ">>>>, <<"ꟁ", <<"Ꟁ">>>>, <<"ꟃ", <<"Ꟃ">>>>,
    <<"ꟈ", <<"Ꟈ">>>>, <<"ꟊ", <<"Ꟊ">>>>, <<"ꟑ", <<"Ꟑ">>>>, <<"ꟗ", <<"Ꟗ">>>>,
    <<"ꟙ", <<"Ꟙ">>>>, <<"ꟶ", <<"Ꟶ">>>>, <<"U+AB53", <<"Ꭓ">>>>, <<"U+AB70", <<"Ꭰ">>>>,
    <<"U+AB71", <<"Ꭱ">>>>, <<"U+AB72", <<"Ꭲ">>>>, <<"U+AB73", <<"Ꭳ">>>>, <<"U+AB74", <<"Ꭴ">>>>,
    <<"U+AB75", <<"Ꭵ">>>>, <<"U+AB76", <<"Ꭶ">>>>, <<"U+AB77", <<"Ꭷ">>>>, <<"U+AB78", <<"Ꭸ">>>>,
    <<"U+AB79", <<"Ꭹ">>>>, <<"U+AB7A", <<"Ꭺ">>>>, <<"U+AB7B", <<"Ꭻ">>>>, <<"U+AB7C", <<"Ꭼ">>>>,
    <<"U+AB7D", <<"Ꭽ">>>>, <<"U+AB7E", <<"Ꭾ">>>>, <<"U+AB7F", <<"Ꭿ">>>>, <<"ꮀ", <<"Ꮀ">>>>,
    <<"ꮁ", <<"Ꮁ">>>>, <<"ꮂ", <<"Ꮂ">>>>, <<"ꮃ", <<"Ꮃ">>>>, <<"ꮄ", <<"Ꮄ">>>>,
    <<"ꮅ", <<"Ꮅ">>>>, <<"ꮆ", <<"Ꮆ">>>>, <<"ꮇ", <<"Ꮇ">>>>, <<"ꮈ", <<"Ꮈ">>>>,
    <<"ꮉ", <<"Ꮉ">>>>, <<"ꮊ", <<"Ꮊ">>>>, <<"ꮋ", <<"Ꮋ">>>>, <<"ꮌ", <<"Ꮌ">>>>,
    <<"ꮍ", <<"Ꮍ">>>>, <<"ꮎ", <<"Ꮎ">>>>, <<"ꮏ", <<"Ꮏ">>>>, <<"ꮐ", <<"Ꮐ">>>>,
    <<"ꮑ", <<"Ꮑ">>>>, <<"ꮒ", <<"Ꮒ">>>>, <<"ꮓ", <<"Ꮓ">>>>, <<"ꮔ", <<"Ꮔ">>>>,
    <<"ꮕ", <<"Ꮕ">>>>, <<"ꮖ", <<"Ꮖ">>>>, <<"ꮗ", <<"Ꮗ">>>>, <<"ꮘ", <<"Ꮘ">>>>,
    <<"ꮙ", <<"Ꮙ">>>>, <<"ꮚ", <<"Ꮚ">>>>, <<"ꮛ", <<"Ꮛ">>>>, <<"ꮜ", <<"Ꮜ">>>>,
    <<"ꮝ", <<"Ꮝ">>>>, <<"ꮞ", <<"Ꮞ">>>>, <<"ꮟ", <<"Ꮟ">>>>, <<"ꮠ", <<"Ꮠ">>>>,
    <<"ꮡ", <<"Ꮡ">>>>, <<"ꮢ", <<"Ꮢ">>>>, <<"ꮣ", <<"Ꮣ">>>>, <<"ꮤ", <<"Ꮤ">>>>,
    <<"ꮥ", <<"Ꮥ">>>>, <<"ꮦ", <<"Ꮦ">>>>, <<"ꮧ", <<"Ꮧ">>>>, <<"ꮨ", <<"Ꮨ">>>>,
    <<"ꮩ", <<"Ꮩ">>>>, <<"ꮪ", <<"Ꮪ">>>>, <<"ꮫ", <<"Ꮫ">>>>, <<"ꮬ", <<"Ꮬ">>>>,
    <<"ꮭ", <<"Ꮭ">>>>, <<"ꮮ", <<"Ꮮ">>>>, <<"ꮯ", <<"Ꮯ">>>>, <<"ꮰ", <<"Ꮰ">>>>,
    <<"ꮱ", <<"Ꮱ">>>>, <<"ꮲ", <<"Ꮲ">>>>, <<"ꮳ", <<"Ꮳ">>>>, <<"ꮴ", <<"Ꮴ">>>>,
    <<"ꮵ", <<"Ꮵ">>>>, <<"ꮶ", <<"Ꮶ">>>>, <<"ꮷ", <<"Ꮷ">>>>, <<"ꮸ", <<"Ꮸ">>>>,
    <<"ꮹ", <<"Ꮹ">>>>, <<"ꮺ", <<"Ꮺ">>>>, <<"ꮻ", <<"Ꮻ">>>>, <<"ꮼ", <<"Ꮼ">>>>,
    <<"ꮽ", <<"Ꮽ">>>>, <<"ꮾ", <<"Ꮾ">>>>, <<"ꮿ", <<"Ꮿ">>>>, <<"U+FB00", <<"F", "F">>>>,
    <<"U+FB01", <<"F", "I">>>>, <<"U+FB02", <<"F", "L">>>>, <<"U+FB03", <<"F", "F", "I">>>>, <<"U+FB04", <<"F", "F", "L">>>>,
    <<"U+FB05", <<"S", "T">>>>, <<"U+FB06", <<"S", "T">>>>, <<"U+FB13", <<"U+0544", "U+0546">>>>, <<"U+FB14", <<"U+0544", "U+0535">>>>,
    <<"U+FB15", <<"U+0544", "U+053B">>>>, <<"U+FB16", <<"U+054E", "U+0546">>>>, <<"U+FB17", <<"U+0544", "U+053D">>>>, <<"U+FF41", <<"U+FF21">>>>,
    <<"U+FF42", <<"U+FF22">>>>, <<"U+FF43", <<"U+FF23">>>>, <<"U+FF44", <<"U+FF24">>>>, <<"U+FF45", <<"U+FF25">>>>,
    <<"U+FF46", <<"U+FF26">>>>, <<"U+FF47", <<"U+FF27">>>>, <<"U+FF48", <<"U+FF28">>>>, <<"U+FF49", <<"U+FF29">>>>,
    <<"U+FF4A", <<"U+FF2A">>>>, <<"U+FF4B", <<"U+FF2B">>>>, <<"U+FF4C", <<"U+FF2C">>>>, <<"U+FF4D", <<"U+FF2D">>>>,
    <<"U+FF4E", <<"U+FF2E">>>>, <<"U+FF4F", <<"U+FF2F">>>>, <<"U+FF50", <<"U+FF30">>>>, <<"U+FF51", <<"U+FF31">>>>,
    <<"U+FF52", <<"U+FF32">>>>, <<"U+FF53", <<"U+FF33">>>>, <<"U+FF54", <<"U+FF34">>>>, <<"U+FF55", <<"U+FF35">>>>,
    <<"U+FF56", <<"U+FF36">>>>, <<"U+FF57", <<"U+FF37">>>>, <<"U+FF58", <<"U+FF38">>>>, <<"U+FF59", <<"U+FF39">>>>,
    <<"U+FF5A", <<"U+FF3A">>>>,
    <<"ƛ", <<"Ƛ">>>>,
    <<"U+0264", <<"Ɤ">>>>, <<"ᲊ", <<"Ᲊ">>>>, <<"ꟍ", <<"Ꟍ">>>>,
    <<"꟏", <<"꟎">>>>, <<"ꟓ", <<"꟒">>>>, <<"ꟕ", <<"꟔">>>>, <<"ꟛ", <<"Ꟛ">>>>
    }

\* The characters above U+FFFF that String.prototype.toUpperCase changes
\* under Unicode 17, each with the character it becomes; such a character
\* is two code units of the string, a high surrogate and a low one.
SurrogateUpperCaseTable == {
    <<<<"U+D801", "U+DC28">>, <<"U+D801", "U+DC00">>>>, <<<<"U+D801", "U+DC29">>, <<"U+D801", "U+DC01">>>>,
    <<<<"U+D801", "U+DC2A">>, <<"U+D801", "U+DC02">>>>, <<<<"U+D801", "U+DC2B">>, <<"U+D801", "U+DC03">>>>,
    <<<<"U+D801", "U+DC2C">>, <<"U+D801", "U+DC04">>>>, <<<<"U+D801", "U+DC2D">>, <<"U+D801", "U+DC05">>>>,
    <<<<"U+D801", "U+DC2E">>, <<"U+D801", "U+DC06">>>>, <<<<"U+D801", "U+DC2F">>, <<"U+D801", "U+DC07">>>>,
    <<<<"U+D801", "U+DC30">>, <<"U+D801", "U+DC08">>>>, <<<<"U+D801", "U+DC31">>, <<"U+D801", "U+DC09">>>>,
    <<<<"U+D801", "U+DC32">>, <<"U+D801", "U+DC0A">>>>, <<<<"U+D801", "U+DC33">>, <<"U+D801", "U+DC0B">>>>,
    <<<<"U+D801", "U+DC34">>, <<"U+D801", "U+DC0C">>>>, <<<<"U+D801", "U+DC35">>, <<"U+D801", "U+DC0D">>>>,
    <<<<"U+D801", "U+DC36">>, <<"U+D801", "U+DC0E">>>>, <<<<"U+D801", "U+DC37">>, <<"U+D801", "U+DC0F">>>>,
    <<<<"U+D801", "U+DC38">>, <<"U+D801", "U+DC10">>>>, <<<<"U+D801", "U+DC39">>, <<"U+D801", "U+DC11">>>>,
    <<<<"U+D801", "U+DC3A">>, <<"U+D801", "U+DC12">>>>, <<<<"U+D801", "U+DC3B">>, <<"U+D801", "U+DC13">>>>,
    <<<<"U+D801", "U+DC3C">>, <<"U+D801", "U+DC14">>>>, <<<<"U+D801", "U+DC3D">>, <<"U+D801", "U+DC15">>>>,
    <<<<"U+D801", "U+DC3E">>, <<"U+D801", "U+DC16">>>>, <<<<"U+D801", "U+DC3F">>, <<"U+D801", "U+DC17">>>>,
    <<<<"U+D801", "U+DC40">>, <<"U+D801", "U+DC18">>>>, <<<<"U+D801", "U+DC41">>, <<"U+D801", "U+DC19">>>>,
    <<<<"U+D801", "U+DC42">>, <<"U+D801", "U+DC1A">>>>, <<<<"U+D801", "U+DC43">>, <<"U+D801", "U+DC1B">>>>,
    <<<<"U+D801", "U+DC44">>, <<"U+D801", "U+DC1C">>>>, <<<<"U+D801", "U+DC45">>, <<"U+D801", "U+DC1D">>>>,
    <<<<"U+D801", "U+DC46">>, <<"U+D801", "U+DC1E">>>>, <<<<"U+D801", "U+DC47">>, <<"U+D801", "U+DC1F">>>>,
    <<<<"U+D801", "U+DC48">>, <<"U+D801", "U+DC20">>>>, <<<<"U+D801", "U+DC49">>, <<"U+D801", "U+DC21">>>>,
    <<<<"U+D801", "U+DC4A">>, <<"U+D801", "U+DC22">>>>, <<<<"U+D801", "U+DC4B">>, <<"U+D801", "U+DC23">>>>,
    <<<<"U+D801", "U+DC4C">>, <<"U+D801", "U+DC24">>>>, <<<<"U+D801", "U+DC4D">>, <<"U+D801", "U+DC25">>>>,
    <<<<"U+D801", "U+DC4E">>, <<"U+D801", "U+DC26">>>>, <<<<"U+D801", "U+DC4F">>, <<"U+D801", "U+DC27">>>>,
    <<<<"U+D801", "U+DCD8">>, <<"U+D801", "U+DCB0">>>>, <<<<"U+D801", "U+DCD9">>, <<"U+D801", "U+DCB1">>>>,
    <<<<"U+D801", "U+DCDA">>, <<"U+D801", "U+DCB2">>>>, <<<<"U+D801", "U+DCDB">>, <<"U+D801", "U+DCB3">>>>,
    <<<<"U+D801", "U+DCDC">>, <<"U+D801", "U+DCB4">>>>, <<<<"U+D801", "U+DCDD">>, <<"U+D801", "U+DCB5">>>>,
    <<<<"U+D801", "U+DCDE">>, <<"U+D801", "U+DCB6">>>>, <<<<"U+D801", "U+DCDF">>, <<"U+D801", "U+DCB7">>>>,
    <<<<"U+D801", "U+DCE0">>, <<"U+D801", "U+DCB8">>>>, <<<<"U+D801", "U+DCE1">>, <<"U+D801", "U+DCB9">>>>,
    <<<<"U+D801", "U+DCE2">>, <<"U+D801", "U+DCBA">>>>, <<<<"U+D801", "U+DCE3">>, <<"U+D801", "U+DCBB">>>>,
    <<<<"U+D801", "U+DCE4">>, <<"U+D801", "U+DCBC">>>>, <<<<"U+D801", "U+DCE5">>, <<"U+D801", "U+DCBD">>>>,
    <<<<"U+D801", "U+DCE6">>, <<"U+D801", "U+DCBE">>>>, <<<<"U+D801", "U+DCE7">>, <<"U+D801", "U+DCBF">>>>,
    <<<<"U+D801", "U+DCE8">>, <<"U+D801", "U+DCC0">>>>, <<<<"U+D801", "U+DCE9">>, <<"U+D801", "U+DCC1">>>>,
    <<<<"U+D801", "U+DCEA">>, <<"U+D801", "U+DCC2">>>>, <<<<"U+D801", "U+DCEB">>, <<"U+D801", "U+DCC3">>>>,
    <<<<"U+D801", "U+DCEC">>, <<"U+D801", "U+DCC4">>>>, <<<<"U+D801", "U+DCED">>, <<"U+D801", "U+DCC5">>>>,
    <<<<"U+D801", "U+DCEE">>, <<"U+D801", "U+DCC6">>>>, <<<<"U+D801", "U+DCEF">>, <<"U+D801", "U+DCC7">>>>,
    <<<<"U+D801", "U+DCF0">>, <<"U+D801", "U+DCC8">>>>, <<<<"U+D801", "U+DCF1">>, <<"U+D801", "U+DCC9">>>>,
    <<<<"U+D801", "U+DCF2">>, <<"U+D801", "U+DCCA">>>>, <<<<"U+D801", "U+DCF3">>, <<"U+D801", "U+DCCB">>>>,
    <<<<"U+D801", "U+DCF4">>, <<"U+D801", "U+DCCC">>>>, <<<<"U+D801", "U+DCF5">>, <<"U+D801", "U+DCCD">>>>,
    <<<<"U+D801", "U+DCF6">>, <<"U+D801", "U+DCCE">>>>, <<<<"U+D801", "U+DCF7">>, <<"U+D801", "U+DCCF">>>>,
    <<<<"U+D801", "U+DCF8">>, <<"U+D801", "U+DCD0">>>>, <<<<"U+D801", "U+DCF9">>, <<"U+D801", "U+DCD1">>>>,
    <<<<"U+D801", "U+DCFA">>, <<"U+D801", "U+DCD2">>>>, <<<<"U+D801", "U+DCFB">>, <<"U+D801", "U+DCD3">>>>,
    <<<<"U+D801", "U+DD97">>, <<"U+D801", "U+DD70">>>>, <<<<"U+D801", "U+DD98">>, <<"U+D801", "U+DD71">>>>,
    <<<<"U+D801", "U+DD99">>, <<"U+D801", "U+DD72">>>>, <<<<"U+D801", "U+DD9A">>, <<"U+D801", "U+DD73">>>>,
    <<<<"U+D801", "U+DD9B">>, <<"U+D801", "U+DD74">>>>, <<<<"U+D801", "U+DD9C">>, <<"U+D801", "U+DD75">>>>,
    <<<<"U+D801", "U+DD9D">>, <<"U+D801", "U+DD76">>>>, <<<<"U+D801", "U+DD9E">>, <<"U+D801", "U+DD77">>>>,
    <<<<"U+D801", "U+DD9F">>, <<"U+D801", "U+DD78">>>>, <<<<"U+D801", "U+DDA0">>, <<"U+D801", "U+DD79">>>>,
    <<<<"U+D801", "U+DDA1">>, <<"U+D801", "U+DD7A">>>>, <<<<"U+D801", "U+DDA3">>, <<"U+D801", "U+DD7C">>>>,
    <<<<"U+D801", "U+DDA4">>, <<"U+D801", "U+DD7D">>>>, <<<<"U+D801", "U+DDA5">>, <<"U+D801", "U+DD7E">>>>,
    <<<<"U+D801", "U+DDA6">>, <<"U+D801", "U+DD7F">>>>, <<<<"U+D801", "U+DDA7">>, <<"U+D801", "U+DD80">>>>,
    <<<<"U+D801", "U+DDA8">>, <<"U+D801", "U+DD81">>>>, <<<<"U+D801", "U+DDA9">>, <<"U+D801", "U+DD82">>>>,
    <<<<"U+D801", "U+DDAA">>, <<"U+D801", "U+DD83">>>>, <<<<"U+D801", "U+DDAB">>, <<"U+D801", "U+DD84">>>>,
    <<<<"U+D801", "U+DDAC">>, <<"U+D801", "U+DD85">>>>, <<<<"U+D801", "U+DDAD">>, <<"U+D801", "U+DD86">>>>,
    <<<<"U+D801", "U+DDAE">>, <<"U+D801", "U+DD87">>>>, <<<<"U+D801", "U+DDAF">>, <<"U+D801", "U+DD88">>>>,
    <<<<"U+D801", "U+DDB0">>, <<"U+D801", "U+DD89">>>>, <<<<"U+D801", "U+DDB1">>, <<"U+D801", "U+DD8A">>>>,
    <<<<"U+D801", "U+DDB3">>, <<"U+D801", "U+DD8C">>>>, <<<<"U+D801", "U+DDB4">>, <<"U+D801", "U+DD8D">>>>,
    <<<<"U+D801", "U+DDB5">>, <<"U+D801", "U+DD8E">>>>, <<<<"U+D801", "U+DDB6">>, <<"U+D801", "U+DD8F">>>>,
    <<<<"U+D801", "U+DDB7">>, <<"U+D801", "U+DD90">>>>, <<<<"U+D801", "U+DDB8">>, <<"U+D801", "U+DD91">>>>,
    <<<<"U+D801", "U+DDB9">>, <<"U+D801", "U+DD92">>>>, <<<<"U+D801", "U+DDBB">>, <<"U+D801", "U+DD94">>>>,
    <<<<"U+D801", "U+DDBC">>, <<"U+D801", "U+DD95">>>>, <<<<"U+D803", "U+DCC0">>, <<"U+D803", "U+DC80">>>>,
    <<<<"U+D803", "U+DCC1">>, <<"U+D803", "U+DC81">>>>, <<<<"U+D803", "U+DCC2">>, <<"U+D803", "U+DC82">>>>,
    <<<<"U+D803", "U+DCC3">>, <<"U+D803", "U+DC83">>>>, <<<<"U+D803", "U+DCC4">>, <<"U+D803", "U+DC84">>>>,
    <<<<"U+D803", "U+DCC5">>, <<"U+D803", "U+DC85">>>>, <<<<"U+D803", "U+DCC6">>, <<"U+D803", "U+DC86">>>>,
    <<<<"U+D803", "U+DCC7">>, <<"U+D803", "U+DC87">>>>, <<<<"U+D803", "U+DCC8">>, <<"U+D803", "U+DC88">>>>,
    <<<<"U+D803", "U+DCC9">>, <<"U+D803", "U+DC89">>>>, <<<<"U+D803", "U+DCCA">>, <<"U+D803", "U+DC8A">>>>,
    <<<<"U+D803", "U+DCCB">>, <<"U+D803", "U+DC8B">>>>, <<<<"U+D803", "U+DCCC">>, <<"U+D803", "U+DC8C">>>>,
    <<<<"U+D803", "U+DCCD">>, <<"U+D803", "U+DC8D">>>>, <<<<"U+D803", "U+DCCE">>, <<"U+D803", "U+DC8E">>>>,
    <<<<"U+D803", "U+DCCF">>, <<"U+D803", "U+DC8F">>>>, <<<<"U+D803", "U+DCD0">>, <<"U+D803", "U+DC90">>>>,
    <<<<"U+D803", "U+DCD1">>, <<"U+D803", "U+DC91">>>>, <<<<"U+D803", "U+DCD2">>, <<"U+D803", "U+DC92">>>>,
    <<<<"U+D803", "U+DCD3">>, <<"U+D803", "U+DC93">>>>, <<<<"U+D803", "U+DCD4">>, <<"U+D803", "U+DC94">>>>,
    <<<<"U+D803", "U+DCD5">>, <<"U+D803", "U+DC95">>>>, <<<<"U+D803", "U+DCD6">>, <<"U+D803", "U+DC96">>>>,
    <<<<"U+D803", "U+DCD7">>, <<"U+D803", "U+DC97">>>>, <<<<"U+D803", "U+DCD8">>, <<"U+D803", "U+DC98">>>>,
    <<<<"U+D803", "U+DCD9">>, <<"U+D803", "U+DC99">>>>, <<<<"U+D803", "U+DCDA">>, <<"U+D803", "U+DC9A">>>>,
    <<<<"U+D803", "U+DCDB">>, <<"U+D803", "U+DC9B">>>>, <<<<"U+D803", "U+DCDC">>, <<"U+D803", "U+DC9C">>>>,
    <<<<"U+D803", "U+DCDD">>, <<"U+D803", "U+DC9D">>>>, <<<<"U+D803", "U+DCDE">>, <<"U+D803", "U+DC9E">>>>,
    <<<<"U+D803", "U+DCDF">>, <<"U+D803", "U+DC9F">>>>, <<<<"U+D803", "U+DCE0">>, <<"U+D803", "U+DCA0">>>>,
    <<<<"U+D803", "U+DCE1">>, <<"U+D803", "U+DCA1">>>>, <<<<"U+D803", "U+DCE2">>, <<"U+D803", "U+DCA2">>>>,
    <<<<"U+D803", "U+DCE3">>, <<"U+D803", "U+DCA3">>>>, <<<<"U+D803", "U+DCE4">>, <<"U+D803", "U+DCA4">>>>,
    <<<<"U+D803", "U+DCE5">>, <<"U+D803", "U+DCA5">>>>, <<<<"U+D803", "U+DCE6">>, <<"U+D803", "U+DCA6">>>>,
    <<<<"U+D803", "U+DCE7">>, <<"U+D803", "U+DCA7">>>>, <<<<"U+D803", "U+DCE8">>, <<"U+D803", "U+DCA8">>>>,
    <<<<"U+D803", "U+DCE9">>, <<"U+D803", "U+DCA9">>>>, <<<<"U+D803", "U+DCEA">>, <<"U+D803", "U+DCAA">>>>,
    <<<<"U+D803", "U+DCEB">>, <<"U+D803", "U+DCAB">>>>, <<<<"U+D803", "U+DCEC">>, <<"U+D803", "U+DCAC">>>>,
    <<<<"U+D803", "U+DCED">>, <<"U+D803", "U+DCAD">>>>, <<<<"U+D803", "U+DCEE">>, <<"U+D803", "U+DCAE">>>>,
    <<<<"U+D803", "U+DCEF">>, <<"U+D803", "U+DCAF">>>>, <<<<"U+D803", "U+DCF0">>, <<"U+D803", "U+DCB0">>>>,
    <<<<"U+D803", "U+DCF1">>, <<"U+D803", "U+DCB1">>>>, <<<<"U+D803", "U+DCF2">>, <<"U+D803", "U+DCB2">>>>,
    <<<<"U+D803", "U+DD70">>, <<"U+D803", "U+DD50">>>>, <<<<"U+D803", "U+DD71">>, <<"U+D803", "U+DD51">>>>,
    <<<<"U+D803", "U+DD72">>, <<"U+D803", "U+DD52">>>>, <<<<"U+D803", "U+DD73">>, <<"U+D803", "U+DD53">>>>,
    <<<<"U+D803", "U+DD74">>, <<"U+D803", "U+DD54">>>>, <<<<"U+D803", "U+DD75">>, <<"U+D803", "U+DD55">>>>,
    <<<<"U+D803", "U+DD76">>, <<"U+D803", "U+DD56">>>>, <<<<"U+D803", "U+DD77">>, <<"U+D803", "U+DD57">>>>,
    <<<<"U+D803", "U+DD78">>, <<"U+D803", "U+DD58">>>>, <<<<"U+D803", "U+DD79">>, <<"U+D803", "U+DD59">>>>,
    <<<<"U+D803", "U+DD7A">>, <<"U+D803", "U+DD5A">>>>, <<<<"U+D803", "U+DD7B">>, <<"U+D803", "U+DD5B">>>>,
    <<<<"U+D803", "U+DD7C">>, <<"U+D803", "U+DD5C">>>>, <<<<"U+D803", "U+DD7D">>, <<"U+D803", "U+DD5D">>>>,
    <<<<"U+D803", "U+DD7E">>, <<"U+D803", "U+DD5E">>>>, <<<<"U+D803", "U+DD7F">>, <<"U+D803", "U+DD5F">>>>,
    <<<<"U+D803", "U+DD80">>, <<"U+D803", "U+DD60">>>>, <<<<"U+D803", "U+DD81">>, <<"U+D803", "U+DD61">>>>,
    <<<<"U+D803", "U+DD82">>, <<"U+D803", "U+DD62">>>>, <<<<"U+D803", "U+DD83">>, <<"U+D803", "U+DD63">>>>,
    <<<<"U+D803", "U+DD84">>, <<"U+D803", "U+DD64">>>>, <<<<"U+D803", "U+DD85">>, <<"U+D803", "U+DD65">>>>,
    <<<<"U+D806", "U+DCC0">>, <<"U+D806", "U+DCA0">>>>, <<<<"U+D806", "U+DCC1">>, <<"U+D806", "U+DCA1">>>>,
    <<<<"U+D806", "U+DCC2">>, <<"U+D806", "U+DCA2">>>>, <<<<"U+D806", "U+DCC3">>, <<"U+D806", "U+DCA3">>>>,
    <<<<"U+D806", "U+DCC4">>, <<"U+D806", "U+DCA4">>>>, <<<<"U+D806", "U+DCC5">>, <<"U+D806", "U+DCA5">>>>,
    <<<<"U+D806", "U+DCC6">>, <<"U+D806", "U+DCA6">>>>, <<<<"U+D806", "U+DCC7">>, <<"U+D806", "U+DCA7">>>>,
    <<<<"U+D806", "U+DCC8">>, <<"U+D806", "U+DCA8">>>>, <<<<"U+D806", "U+DCC9">>, <<"U+D806", "U+DCA9">>>>,
    <<<<"U+D806", "U+DCCA">>, <<"U+D806", "U+DCAA">>>>, <<<<"U+D806", "U+DCCB">>, <<"U+D806", "U+DCAB">>>>,
    <<<<"U+D806", "U+DCCC">>, <<"U+D806", "U+DCAC">>>>, <<<<"U+D806", "U+DCCD">>, <<"U+D806", "U+DCAD">>>>,
    <<<<"U+D806", "U+DCCE">>, <<"U+D806", "U+DCAE">>>>, <<<<"U+D806", "U+DCCF">>, <<"U+D806", "U+DCAF">>>>,
    <<<<"U+D806", "U+DCD0">>, <<"U+D806", "U+DCB0">>>>, <<<<"U+D806", "U+DCD1">>, <<"U+D806", "U+DCB1">>>>,
    <<<<"U+D806", "U+DCD2">>, <<"U+D806", "U+DCB2">>>>, <<<<"U+D806", "U+DCD3">>, <<"U+D806", "U+DCB3">>>>,
    <<<<"U+D806", "U+DCD4">>, <<"U+D806", "U+DCB4">>>>, <<<<"U+D806", "U+DCD5">>, <<"U+D806", "U+DCB5">>>>,
    <<<<"U+D806", "U+DCD6">>, <<"U+D806", "U+DCB6">>>>, <<<<"U+D806", "U+DCD7">>, <<"U+D806", "U+DCB7">>>>,
    <<<<"U+D806", "U+DCD8">>, <<"U+D806", "U+DCB8">>>>, <<<<"U+D806", "U+DCD9">>, <<"U+D806", "U+DCB9">>>>,
    <<<<"U+D806", "U+DCDA">>, <<"U+D806", "U+DCBA">>>>, <<<<"U+D806", "U+DCDB">>, <<"U+D806", "U+DCBB">>>>,
    <<<<"U+D806", "U+DCDC">>, <<"U+D806", "U+DCBC">>>>, <<<<"U+D806", "U+DCDD">>, <<"U+D806", "U+DCBD">>>>,
    <<<<"U+D806", "U+DCDE">>, <<"U+D806", "U+DCBE">>>>, <<<<"U+D806", "U+DCDF">>, <<"U+D806", "U+DCBF">>>>,
    <<<<"U+D81B", "U+DE60">>, <<"U+D81B", "U+DE40">>>>, <<<<"U+D81B", "U+DE61">>, <<"U+D81B", "U+DE41">>>>,
    <<<<"U+D81B", "U+DE62">>, <<"U+D81B", "U+DE42">>>>, <<<<"U+D81B", "U+DE63">>, <<"U+D81B", "U+DE43">>>>,
    <<<<"U+D81B", "U+DE64">>, <<"U+D81B", "U+DE44">>>>, <<<<"U+D81B", "U+DE65">>, <<"U+D81B", "U+DE45">>>>,
    <<<<"U+D81B", "U+DE66">>, <<"U+D81B", "U+DE46">>>>, <<<<"U+D81B", "U+DE67">>, <<"U+D81B", "U+DE47">>>>,
    <<<<"U+D81B", "U+DE68">>, <<"U+D81B", "U+DE48">>>>, <<<<"U+D81B", "U+DE69">>, <<"U+D81B", "U+DE49">>>>,
    <<<<"U+D81B", "U+DE6A">>, <<"U+D81B", "U+DE4A">>>>, <<<<"U+D81B", "U+DE6B">>, <<"U+D81B", "U+DE4B">>>>,
    <<<<"U+D81B", "U+DE6C">>, <<"U+D81B", "U+DE4C">>>>, <<<<"U+D81B", "U+DE6D">>, <<"U+D81B", "U+DE4D">>>>,
    <<<<"U+D81B", "U+DE6E">>, <<"U+D81B", "U+DE4E">>>>, <<<<"U+D81B", "U+DE6F">>, <<"U+D81B", "U+DE4F">>>>,
    <<<<"U+D81B", "U+DE70">>, <<"U+D81B", "U+DE50">>>>, <<<<"U+D81B", "U+DE71">>, <<"U+D81B", "U+DE51">>>>,
    <<<<"U+D81B", "U+DE72">>, <<"U+D81B", "U+DE52">>>>, <<<<"U+D81B", "U+DE73">>, <<"U+D81B", "U+DE53">>>>,
    <<<<"U+D81B", "U+DE74">>, <<"U+D81B", "U+DE54">>>>, <<<<"U+D81B", "U+DE75">>, <<"U+D81B", "U+DE55">>>>,
    <<<<"U+D81B", "U+DE76">>, <<"U+D81B", "U+DE56">>>>, <<<<"U+D81B", "U+DE77">>, <<"U+D81B", "U+DE57">>>>,
    <<<<"U+D81B", "U+DE78">>, <<"U+D81B", "U+DE58">>>>, <<<<"U+D81B", "U+DE79">>, <<"U+D81B", "U+DE59">>>>,
    <<<<"U+D81B", "U+DE7A">>, <<"U+D81B", "U+DE5A">>>>, <<<<"U+D81B", "U+DE7B">>, <<"U+D81B", "U+DE5B">>>>,
    <<<<"U+D81B", "U+DE7C">>, <<"U+D81B", "U+DE5C">>>>, <<<<"U+D81B", "U+DE7D">>, <<"U+D81B", "U+DE5D">>>>,
    <<<<"U+D81B", "U+DE7E">>, <<"U+D81B", "U+DE5E">>>>, <<<<"U+D81B", "U+DE7F">>, <<"U+D81B", "U+DE5F">>>>,
    <<<<"U+D81B", "U+DEBB">>, <<"U+D81B", "U+DEA0">>>>, <<<<"U+D81B", "U+DEBC">>, <<"U+D81B", "U+DEA1">>>>,
    <<<<"U+D81B", "U+DEBD">>, <<"U+D81B", "U+DEA2">>>>, <<<<"U+D81B", "U+DEBE">>, <<"U+D81B", "U+DEA3">>>>,
    <<<<"U+D81B", "U+DEBF">>, <<"U+D81B", "U+DEA4">>>>, <<<<"U+D81B", "U+DEC0">>, <<"U+D81B", "U+DEA5">>>>,
    <<<<"U+D81B", "U+DEC1">>, <<"U+D81B", "U+DEA6">>>>, <<<<"U+D81B", "U+DEC2">>, <<"U+D81B", "U+DEA7">>>>,
    <<<<"U+D81B", "U+DEC3">>, <<"U+D81B", "U+DEA8">>>>, <<<<"U+D81B", "U+DEC4">>, <<"U+D81B", "U+DEA9">>>>,
    <<<<"U+D81B", "U+DEC5">>, <<"U+D81B", "U+DEAA">>>>, <<<<"U+D81B", "U+DEC6">>, <<"U+D81B", "U+DEAB">>>>,
    <<<<"U+D81B", "U+DEC7">>, <<"U+D81B", "U+DEAC">>>>, <<<<"U+D81B", "U+DEC8">>, <<"U+D81B", "U+DEAD">>>>,
    <<<<"U+D81B", "U+DEC9">>, <<"U+D81B", "U+DEAE">>>>, <<<<"U+D81B", "U+DECA">>, <<"U+D81B", "U+DEAF">>>>,
    <<<<"U+D81B", "U+DECB">>, <<"U+D81B", "U+DEB0">>>>, <<<<"U+D81B", "U+DECC">>, <<"U+D81B", "U+DEB1">>>>,
    <<<<"U+D81B", "U+DECD">>, <<"U+D81B", "U+DEB2">>>>, <<<<"U+D81B", "U+DECE">>, <<"U+D81B", "U+DEB3">>>>,
    <<<<"U+D81B", "U+DECF">>, <<"U+D81B", "U+DEB4">>>>, <<<<"U+D81B", "U+DED0">>, <<"U+D81B", "U+DEB5">>>>,
    <<<<"U+D81B", "U+DED1">>, <<"U+D81B", "U+DEB6">>>>, <<<<"U+D81B", "U+DED2">>, <<"U+D81B", "U+DEB7">>>>,
    <<<<"U+D81B", "U+DED3">>, <<"U+D81B", "U+DEB8">>>>, <<<<"U+D83A", "U+DD22">>, <<"U+D83A", "U+DD00">>>>,
    <<<<"U+D83A", "U+DD23">>, <<"U+D83A", "U+DD01">>>>, <<<<"U+D83A", "U+DD24">>, <<"U+D83A", "U+DD02">>>>,
    <<<<"U+D83A", "U+DD25">>, <<"U+D83A", "U+DD03">>>>, <<<<"U+D83A", "U+DD26">>, <<"U+D83A", "U+DD04">>>>,
    <<<<"U+D83A", "U+DD27">>, <<"U+D83A", "U+DD05">>>>, <<<<"U+D83A", "U+DD28">>, <<"U+D83A", "U+DD06">>>>,
    <<<<"U+D83A", "U+DD29">>, <<"U+D83A", "U+DD07">>>>, <<<<"U+D83A", "U+DD2A">>, <<"U+D83A", "U+DD08">>>>,
    <<<<"U+D83A", "U+DD2B">>, <<"U+D83A", "U+DD09">>>>, <<<<"U+D83A", "U+DD2C">>, <<"U+D83A", "U+DD0A">>>>,
    <<<<"U+D83A", "U+DD2D">>, <<"U+D83A", "U+DD0B">>>>, <<<<"U+D83A", "U+DD2E">>, <<"U+D83A", "U+DD0C">>>>,
    <<<<"U+D83A", "U+DD2F">>, <<"U+D83A", "U+DD0D">>>>, <<<<"U+D83A", "U+DD30">>, <<"U+D83A", "U+DD0E">>>>,
    <<<<"U+D83A", "U+DD31">>, <<"U+D83A", "U+DD0F">>>>, <<<<"U+D83A", "U+DD32">>, <<"U+D83A", "U+DD10">>>>,
    <<<<"U+D83A", "U+DD33">>, <<"U+D83A", "U+DD11">>>>, <<<<"U+D83A", "U+DD34">>, <<"U+D83A", "U+DD12">>>>,
    <<<<"U+D83A", "U+DD35">>, <<"U+D83A", "U+DD13">>>>, <<<<"U+D83A", "U+DD36">>, <<"U+D83A", "U+DD14">>>>,
    <<<<"U+D83A", "U+DD37">>, <<"U+D83A", "U+DD15">>>>, <<<<"U+D83A", "U+DD38">>, <<"U+D83A", "U+DD16">>>>,
    <<<<"U+D83A", "U+DD39">>, <<"U+D83A", "U+DD17">>>>, <<<<"U+D83A", "U+DD3A">>, <<"U+D83A", "U+DD18">>>>,
    <<<<"U+D83A", "U+DD3B">>, <<"U+D83A", "U+DD19">>>>, <<<<"U+D83A", "U+DD3C">>, <<"U+D83A", "U+DD1A">>>>,
    <<<<"U+D83A", "U+DD3D">>, <<"U+D83A", "U+DD1B">>>>, <<<<"U+D83A", "U+DD3E">>, <<"U+D83A", "U+DD1C">>>>,
    <<<<"U+D83A", "U+DD3F">>, <<"U+D83A", "U+DD1D">>>>, <<<<"U+D83A", "U+DD40">>, <<"U+D83A", "U+DD1E">>>>,
    <<<<"U+D83A", "U+DD41">>, <<"U+D83A", "U+DD1F">>>>, <<<<"U+D83A", "U+DD42">>, <<"U+D83A", "U+DD20">>>>,
    <<<<"U+D83A", "U+DD43">>, <<"U+D83A", "U+DD21">>>>
    }

\* c.toUpperCase() for one character c.
UpperCaseOf(c) ==
    IF \E p \in UpperCaseTable : p[1] = c
    THEN (CHOOSE p \in UpperCaseTable : p[1] = c)[2]
    ELSE <<c>>

\* String.prototype.toUpperCase: a surrogate pair is mapped as the one
\* character it encodes, every other code unit by itself.
RECURSIVE toUpperCase(_)
toUpperCase(str) ==
    IF str = <<>> THEN <<>>
    ELSE IF /\ Len(str) >= 2
            /\ \E p \in SurrogateUpperCaseTable : p[1] = <<str[1], str[2]>>
    THEN (CHOOSE p \in SurrogateUpperCaseTable : p[1] = <<str[1], str[2]>>)[2]
         \o toUpperCase(Tail(Tail(str)))
    ELSE UpperCaseOf(Head(str)) \o toUpperCase(Tail(str))

\* String.prototype.trim: the string without its leading and trailing
\* white space and line terminators.
trim(str) ==
    LET kept == {i \in 1..Len(str) : str[i] \notin WhiteSpace}
    IN  IF kept = {} THEN <<>>
        ELSE SubSeq(str, CHOOSE i \in kept : \A j \in kept : i <= j,
                         CHOOSE i \in kept : \A j \in kept : i >= j)

\* The string of TLA+ with the characters of str.
RECURSIVE Join(_)
Join(str) == IF str = <<>> THEN "" ELSE Head(str) \o Join(Tail(str))

\* /^#([0-9A-F]{0,6})$/i
IsPartialHex(str) ==
    /\ Len(str) \in 1..7
    /\ str[1] = "#"
    /\ \A i \in 2..Len(str) : IsHexDigit(str[i])

\* The render branch of lines 521-550: the prompt asking for a valid hex
\* value is rendered when generatedPalette is empty, the grid otherwise.
RendersPrompt == Len(generatedPalette) = 0

\* n in decimal, with zeros in front up to two or three digits.
Pad2(n) == IF n < 10 THEN "0" \o ToString(n) ELSE ToString(n)
Pad3(n) == IF n < 100 THEN "0" \o Pad2(n) ELSE ToString(n)

\* `${Date.now()}` at clock reading t, in milliseconds after 1700000000000
\* (2023-11-14T22:13:20.000Z), 0 <= t < 2^31; every operation that reads
\* the clock finds it one millisecond later.
DateNow(t) == ToString(1700000000 + t \div 1000) \o Pad3(t % 1000)

\* new Date().toISOString() at clock reading t, 0 <= t < 2^31 (up to
\* 9 December 2023).
ToISOString(t) ==
    LET seconds == 80000 + t \div 1000
        day == 14 + seconds \div 86400
        ofDay == seconds % 86400
    IN  (IF day <= 30 THEN "2023-11-" \o Pad2(day)
         ELSE "2023-12-" \o Pad2(day - 30))
        \o "T" \o Pad2(ofDay \div 3600) \o ":" \o Pad2((ofDay % 3600) \div 60)
        \o ":" \o Pad2(ofDay % 60) \o "." \o Pad3(t % 1000) \o "Z"

\* prev.some(p => p.name === name)
someNamed(prev, name) == \E i \in 1..Len(prev) : prev[i].name = name

\* The palettes of a collection whose name is not name, in order,
\* keeping the first one only where it is the only one.
filterFirstKept(prev, name) ==
    IF Len(prev) <= 1 THEN SelectSeq(prev, LAMBDA p : p.name # name)
    ELSE <<prev[1]>> \o SelectSeq(Tail(prev), LAMBDA p : p.name # name)

\* prev.filter(p => p.name !== name)
filterByName(prev, name) ==
    SelectSeq(prev, LAMBDA p : p.name # name)

\* The palette savePalette of the provider builds from its argument
\* (ThemeContext.tsx 59-67) at clock reading t.
PaletteWithName(arg, t) ==
    [name |-> IF arg.name # "" THEN arg.name
              ELSE "Palette " \o DateNow(t),
     colors |-> arg.colors, primary |-> arg.primary,
     secondary |-> arg.secondary, accent |-> arg.accent,
     background |-> arg.background, text |-> arg.text]

\* The collection savePalette of the provider leaves (ThemeContext.tsx
\* 69-75).
SavedInto(prev, paletteWithName) ==
    IF someNamed(prev, paletteWithName.name)
    THEN [i \in 1..Len(prev) |->
            IF prev[i].name = paletteWithName.name THEN paletteWithName
            ELSE prev[i]]
    ELSE <<paletteWithName>> \o prev

\* The current palette deletePalette of the provider leaves (ThemeContext.tsx
\* 83-88); current is the current palette before the call.
CurrentAfterDelete(current, newPalettes, name) ==
    IF current.name = name /\ Len(newPalettes) > 0 THEN newPalettes[1]
    ELSE IF Len(newPalettes) = 0 THEN defaultPalette
    ELSE current

\* Initial state of the component and the provider, nothing saved in
\* localStorage, before the first effect.
UiInit ==
    /\ baseColor = <<"#","4","F","4","6","E","5">>
    /\ schemeType = "LuminosityContrast"
    /\ generatedPalette = <<>>
    /\ currentPalette = defaultPalette
    /\ themePalette = defaultPalette
    /\ palettes = <<defaultPalette>>
    /\ effectPending = TRUE
    /\ lastEvent = "mount"
    /\ eventCount = 0
    /\ paletteName = <<"D","e","f","a","u","l","t">>
    /\ Join(paletteName) = currentPalette.name
    /\ isEditingName = FALSE
    /\ showSaveSuccess = FALSE
    /\ saveTimers = 0
    /\ activeTab = "current"

\* The name field and the tabs of a component that is not mounted.
EditIdle ==
    /\ paletteName = <<>> /\ isEditingName = FALSE /\ showSaveSuccess = FALSE
    /\ saveTimers = 0 /\ activeTab = "current"

\* The component is not mounted.
UiIdle == /\ baseColor = <<>> /\ schemeType = "LuminosityContrast"
          /\ generatedPalette = <<>> /\ currentPalette = defaultPalette
          /\ themePalette = defaultPalette /\ palettes = <<>>
          /\ effectPending = FALSE /\ lastEvent = "idle" /\ eventCount = 0
          /\ EditIdle

\* useEffect(..., [baseColor, schemeType]) of the component.
PaletteEffect ==
    /\ effectPending
    /\ effectPending' = FALSE
    /\ lastEvent' = "effect"
    /\ IF baseColor # <<>> /\ IsValidHex(baseColor)
       THEN LET newPalette == generateAdvancedPalette(baseColor, schemeType)
                hexAt(i) == IF i <= Len(newPalette) THEN newPalette[i].hex
                            ELSE baseColor
            IN  /\ generatedPalette' = newPalette
                /\ currentPalette' =
                      [currentPalette EXCEPT !.colors = Hexes(newPalette),
                                             !.primary = hexAt(1),
                                             !.secondary = hexAt(2),
                                             !.accent = hexAt(3)]
       ELSE UNCHANGED <<generatedPalette, currentPalette>>
    /\ UNCHANGED <<baseColor, schemeType, themePalette, palettes, eventCount,
                   editVars>>

\* Largest number of handlers run after mounting, the two that disable
\* themselves (the click on the palette name, the "New Palette" button)
\* not counted.
MaxEvents == 2

\* A handler runs once the pending effect has run.
HandlerEnabled == ~effectPending /\ eventCount < MaxEvents

\* Values of the text field after an edit: "#4F46E", "#4f46e5", "#ff0000",
\* "#abc", "", "blue".
TypedValues ==
    { <<"#","4","F","4","6","E">>, <<"#","4","f","4","6","e","5">>,
      <<"#","f","f","0","0","0","0">>, <<"#","a","b","c">>, <<>>,
      <<"b","l","u","e">> }

\* onChange of the text field (lines 424-429).
BaseColorTyped ==
    /\ HandlerEnabled
    /\ \E typed \in TypedValues :
          LET value == toUpperCase(typed)
          IN  IF IsPartialHex(value)
              THEN /\ baseColor' = value
                   /\ effectPending' = (value # baseColor)
              ELSE UNCHANGED <<baseColor, effectPending>>
    /\ lastEvent' = "type"
    /\ eventCount' = eventCount + 1
    /\ UNCHANGED <<schemeType, generatedPalette, currentPalette, themePalette,
                   palettes, editVars>>

\* Values of the colour picker: '#' and six lowercase digits.
PickedValues == { <<"#","8","0","8","0","8","0">> }

\* onChange of the colour picker (line 416).
BaseColorPicked ==
    /\ HandlerEnabled
    /\ \E picked \in PickedValues :
          /\ baseColor' = toUpperCase(picked)
          /\ effectPending' = (toUpperCase(picked) # baseColor)
    /\ lastEvent' = "pick"
    /\ eventCount' = eventCount + 1
    /\ UNCHANGED <<schemeType, generatedPalette, currentPalette, themePalette,
                   palettes, editVars>>

\* onClick of a scheme button (line 451).
SchemeSelected ==
    /\ HandlerEnabled
    /\ \E sch \in Schemes :
          /\ schemeType' = sch
          /\ effectPending' = (sch # schemeType)
    /\ lastEvent' = "scheme"
    /\ eventCount' = eventCount + 1
    /\ UNCHANGED <<baseColor, generatedPalette, currentPalette, themePalette,
                   palettes, editVars>>

\* The colours a click can hand to handleColorSelect: the cards of the
\* generated palette (line 534) and, in the current-palette tab (line
\* 657), the primary, secondary and accent cards and the colour swatches
\* (664-690).
Clickable ==
    {generatedPalette[i].hex : i \in 1..Len(generatedPalette)}
    \cup (IF activeTab = "current"
          THEN {currentPalette.primary, currentPalette.secondary,
                currentPalette.accent}
               \cup {currentPalette.colors[i] :
                        i \in 1..Len(currentPalette.colors)}
          ELSE {})

\* The palette handleColorSelect(color) sets as current.
SelectedPalette(pal, color) ==
    [pal EXCEPT !.primary = color,
                !.secondary = getContrastText(color),
                !.text = getContrastText(color)]

\* handleColorSelect (lines 249-257).
handleColorSelect ==
    /\ HandlerEnabled
    /\ \E color \in Clickable :
          /\ currentPalette' = SelectedPalette(currentPalette, color)
          /\ baseColor' = color
          /\ effectPending' = (color # baseColor)
    /\ lastEvent' = "select"
    /\ eventCount' = eventCount + 1
    /\ UNCHANGED <<schemeType, generatedPalette, themePalette, palettes,
                   editVars>>

\* onClick of a saved palette's button (lines 788-791), rendered in the
\* saved-palettes tab.
SavedPaletteUsed ==
    /\ HandlerEnabled
    /\ activeTab = "saved"
    /\ \E i \in 1..Len(palettes) : currentPalette' = palettes[i]
    /\ activeTab' = "current"
    /\ lastEvent' = "use"
    /\ eventCount' = eventCount + 1
    /\ UNCHANGED <<baseColor, schemeType, generatedPalette, themePalette,
                   palettes, effectPending, paletteName, isEditingName,
                   showSaveSuccess, saveTimers>>

\* Values Math.random() gives getRandomColor() and the new base colour of
\* handleGenerateNew: '#' and six lowercase digits.
RandomColors == { <<"#","3","b","8","2","f","6">>, <<"#","f","f","0","0","0","1">> }

\* `Palette ${palettes.length + 1}`
PaletteName(n) == "Palette " \o ToString(n)

\* handleGenerateNew (lines 297-303): generateNewPalette of the provider
\* (ThemeContext.tsx 52-56), then a random base colour.
handleGenerateNew ==
    /\ HandlerEnabled
    /\ \E base \in RandomColors, index \in 0..4 :
          \E newPalette \in
                {generateRandomPalette(PaletteName(Len(palettes) + 1), base, index, 0)} :
              /\ themePalette' = newPalette
              /\ palettes' = <<newPalette>> \o palettes
    /\ \E newBaseColor \in RandomColors :
          /\ baseColor' = newBaseColor
          /\ effectPending' = (newBaseColor # baseColor)
    /\ lastEvent' = "generateNew"
    /\ eventCount' = eventCount + 1
    /\ UNCHANGED <<schemeType, generatedPalette, currentPalette, editVars>>

\* onClick of the palette name (line 576), rendered while the name is not
\* being edited.
NameClicked ==
    /\ ~effectPending
    /\ ~isEditingName
    /\ isEditingName' = TRUE
    /\ lastEvent' = "editName"
    /\ UNCHANGED <<baseColor, schemeType, generatedPalette, currentPalette,
                   themePalette, palettes, effectPending, eventCount,
                   paletteName, showSaveSuccess, saveTimers, activeTab>>

\* Values of the name field after an edit: "  Sea" followed by a tab, and
\* a space followed by a no-break space.
TypedNames == { <<" "," ","S","e","a","\t">>, <<" "," ">> }

\* onChange of the name field (line 560), rendered while the name is
\* being edited.
PaletteNameTyped ==
    /\ HandlerEnabled
    /\ isEditingName
    /\ \E typed \in TypedNames \ {paletteName} : paletteName' = typed
    /\ lastEvent' = "typeName"
    /\ eventCount' = eventCount + 1
    /\ UNCHANGED <<baseColor, schemeType, generatedPalette, currentPalette,
                   themePalette, palettes, effectPending, isEditingName,
                   showSaveSuccess, saveTimers, activeTab>>

\* handleSavePalette (lines 259-272): savePalette of the provider
\* (ThemeContext.tsx 58-77) on the current palette of the component under
\* the trimmed name of the name field, then the success note and its
\* timer.  It is bound to the name field and its button (lines 563-567),
\* rendered while the name is being edited, and to the save button of the
\* current-palette tab (lines 634-637).
handleSavePalette ==
    /\ HandlerEnabled
    /\ isEditingName \/ activeTab = "current"
    /\ IF Len(currentPalette.colors) = 0
       THEN UNCHANGED <<themePalette, palettes, showSaveSuccess, saveTimers,
                        isEditingName>>
       ELSE \E trimmed \in {trim(paletteName)} :
              \E paletteWithName \in
                    {PaletteWithName(
                        [currentPalette EXCEPT
                           !.name = IF Len(trimmed) # 0 THEN Join(trimmed)
                                    ELSE "Unnamed Palette"], clock)} :
                  /\ palettes' = SavedInto(palettes, paletteWithName)
                  /\ themePalette' = paletteWithName
                  /\ showSaveSuccess' = TRUE
                  /\ saveTimers' = saveTimers + 1
                  /\ isEditingName' = FALSE
    /\ lastEvent' = "save"
    /\ eventCount' = eventCount + 1
    /\ UNCHANGED <<baseColor, schemeType, generatedPalette, currentPalette,
                   effectPending, paletteName, activeTab>>

\* The timer of line 270 fires.
SaveSuccessExpires ==
    /\ saveTimers > 0
    /\ saveTimers' = saveTimers - 1
    /\ showSaveSuccess' = FALSE
    /\ lastEvent' = "saveNoteExpires"
    /\ UNCHANGED <<baseColor, schemeType, generatedPalette, currentPalette,
                   themePalette, palettes, effectPending, eventCount,
                   paletteName, isEditingName, activeTab>>

\* onClick of the tab button (line 596).
TabToggled ==
    /\ HandlerEnabled
    /\ activeTab' = (IF activeTab = "current" THEN "saved" ELSE "current")
    /\ lastEvent' = "tab"
    /\ eventCount' = eventCount + 1
    /\ UNCHANGED <<baseColor, schemeType, generatedPalette, currentPalette,
                   themePalette, palettes, effectPending, paletteName,
                   isEditingName, showSaveSuccess, saveTimers>>

\* onClick of the "New Palette" button (line 766), rendered in the
\* saved-palettes tab while nothing is saved.
NewPaletteTab ==
    /\ ~effectPending
    /\ activeTab = "saved"
    /\ Len(palettes) = 0
    /\ activeTab' = "current"
    /\ lastEvent' = "newPaletteTab"
    /\ UNCHANGED <<baseColor, schemeType, generatedPalette, currentPalette,
                   themePalette, palettes, effectPending, eventCount,
                   paletteName, isEditingName, showSaveSuccess, saveTimers>>

\* onClick of a saved palette's delete button (line 798), rendered in the
\* saved-palettes tab: deletePalette of the provider (ThemeContext.tsx
\* 79-91) on the name of that palette.
DeleteClicked ==
    /\ HandlerEnabled
    /\ activeTab = "saved"
    /\ \E i \in 1..Len(palettes) :
          \E newPalettes \in {filterByName(palettes, palettes[i].name)} :
              /\ themePalette' =
                    CurrentAfterDelete(themePalette, newPalettes, palettes[i].name)
              /\ palettes' = newPalettes
    /\ lastEvent' = "delete"
    /\ eventCount' = eventCount + 1
    /\ UNCHANGED <<baseColor, schemeType, generatedPalette, currentPalette,
                   effectPending, editVars>>

(* The palette import of the component (handleImportPalette)               *)

\* Files handed to handleImportPalette.  content is the text of the file,
\* json what JSON.parse(text) gives ("error" when it throws, else the type
\* of the value), and for an object colorsKind, colors and the six
\* strings are its properties: an absent property has colorsKind "absent"
\* or is the empty string, an element of colors is a string or a number.
\* kind names the case of the file.
NoProperties ==
    [colorsKind |-> "absent", colors |-> <<>>, name |-> "", primary |-> <<>>,
     secondary |-> <<>>, accent |-> <<>>, background |-> <<>>, text |-> <<>>]

JsonString(chars) == [type |-> "string", str |-> chars]
JsonNumber == [type |-> "number", str |-> <<>>]

ImportFile(kind, content, json, properties) ==
    [kind |-> kind, content |-> content, json |-> json,
     properties |-> properties]

ImportFiles ==
    { ImportFile("unparseable", "", "error", NoProperties),
      ImportFile("unparseable", "{colors: #fff", "error", NoProperties),
      ImportFile("non-object", "null", "null", NoProperties),
      ImportFile("non-object", "42", "number", NoProperties),
      ImportFile("no colors", "[]", "array", NoProperties),
      ImportFile("no colors", "{\"colors\":\"#fff\"}", "object",
                 [NoProperties EXCEPT !.colorsKind = "string"]),
      ImportFile("empty colors", "{\"name\":\"Sea\",\"colors\":[]}", "object",
                 [NoProperties EXCEPT !.colorsKind = "array", !.name = "Sea"]),
      ImportFile("no valid hex", "{\"colors\":[5,\"red\",\"#12\"]}", "object",
                 [NoProperties EXCEPT
                    !.colorsKind = "array",
                    !.colors = << JsonNumber, JsonString(<<"r","e","d">>),
                                  JsonString(<<"#","1","2">>) >>]),
      ImportFile("valid", "{\"colors\":[\"#ABC\",\"red\",\"#00ff00\"]}", "object",
                 [NoProperties EXCEPT
                    !.colorsKind = "array",
                    !.colors = << JsonString(<<"#","A","B","C">>),
                                  JsonString(<<"r","e","d">>),
                                  JsonString(<<"#","0","0","f","f","0","0">>) >>]),
      ImportFile("valid",
                 "{\"name\":\"Sea\",\"colors\":[\"#4F46E5\",7],\"primary\":\"teal\",\"text\":\"#222222\"}",
                 "object",
                 [NoProperties EXCEPT
                    !.colorsKind = "array", !.name = "Sea",
                    !.colors = << JsonString(<<"#","4","F","4","6","E","5">>),
                                  JsonNumber >>,
                    !.primary = <<"t","e","a","l">>,
                    !.text = <<"#","2","2","2","2","2","2">>]) }

\* No reader has delivered.
NoRead == [state |-> "none", file |-> ImportFile("", "", "", NoProperties)]

\* handleImportPalette (lines 305-369) on a chosen file: a new reader
\* starts, whether or not earlier ones are still reading.
handleImportPalette ==
    /\ HandlerEnabled
    /\ \E file \in ImportFiles : importReaders' = Append(importReaders, file)
    /\ lastEvent' = "import"
    /\ eventCount' = eventCount + 1
    /\ UNCHANGED <<baseColor, schemeType, generatedPalette, currentPalette,
                   themePalette, palettes, effectPending, editVars,
                   importRead>>

\* The readers without the one at position i.
WithoutReader(readers, i) ==
    SubSeq(readers, 1, i - 1) \o SubSeq(readers, i + 1, Len(readers))

\* The checks of lines 316-329 pass.
IsImportable(file) ==
    /\ file.content # ""
    /\ file.json \in {"object", "array"}
    /\ file.properties.colorsKind = "array"
    /\ Len(file.properties.colors) # 0

\* importedData.colors.filter(...) of lines 332-334.
validColors(file) ==
    LET kept == SelectSeq(file.properties.colors,
                          LAMBDA c : c.type = "string" /\ IsValidHex(c.str))
    IN  [i \in 1..Len(kept) |-> kept[i].str]

\* a || b for strings: b when a is missing or empty.
OrElse(a, b) == IF Len(a) # 0 THEN a ELSE b

\* The palette of lines 341-349, with every colour of the file kept.
importedPalette_Unfiltered(file, valid) ==
    [name |-> IF file.properties.name # "" THEN file.properties.name
              ELSE "Imported Palette",
     colors |-> [i \in 1..Len(file.properties.colors) |->
                    file.properties.colors[i].str],
     primary |-> OrElse(file.properties.primary, valid[1]),
     secondary |-> OrElse(file.properties.secondary,
                          IF Len(valid) >= 2 THEN valid[2] ELSE valid[1]),
     accent |-> OrElse(file.properties.accent,
                       IF Len(valid) >= 3 THEN valid[3]
                       ELSE IF Len(valid) >= 2 THEN valid[2] ELSE valid[1]),
     background |-> OrElse(file.properties.background,
                           <<"#","f","f","f","f","f","f">>),
     text |-> OrElse(file.properties.text, <<"#","0","0","0","0","0","0">>)]

\* The palette of lines 341-349; valid is validColors, not empty.
importedPalette(file, valid) ==
    [name |-> IF file.properties.name # "" THEN file.properties.name
              ELSE "Imported Palette",
     colors |-> valid,
     primary |-> OrElse(file.properties.primary, valid[1]),
     secondary |-> OrElse(file.properties.secondary,
                          IF Len(valid) >= 2 THEN valid[2] ELSE valid[1]),
     accent |-> OrElse(file.properties.accent,
                       IF Len(valid) >= 3 THEN valid[3]
                       ELSE IF Len(valid) >= 2 THEN valid[2] ELSE valid[1]),
     background |-> OrElse(file.properties.background,
                           <<"#","f","f","f","f","f","f">>),
     text |-> OrElse(file.properties.text, <<"#","0","0","0","0","0","0">>)]

\* reader.onload (lines 313-362) of any reader that is reading.
ReaderLoads ==
    /\ ~effectPending
    /\ \E i \in 1..Len(importReaders) :
       \E file \in {importReaders[i]} :
       \E valid \in {validColors(file)} :
         /\ importReaders' = WithoutReader(importReaders, i)
         /\ IF IsImportable(file) /\ Len(valid) # 0
            THEN /\ currentPalette' = importedPalette(file, valid)
                 /\ baseColor' = valid[1]
                 /\ effectPending' = (valid[1] # baseColor)
                 /\ importRead' = [state |-> "imported", file |-> file]
            ELSE /\ importRead' = [state |-> "failed", file |-> file]
                 /\ UNCHANGED <<currentPalette, baseColor, effectPending>>
    /\ lastEvent' = "load"
    /\ UNCHANGED <<schemeType, generatedPalette, themePalette, palettes,
                   eventCount, editVars>>

\* reader.onerror (lines 364-366) of any reader that is reading.
ReaderFails ==
    /\ ~effectPending
    /\ \E i \in 1..Len(importReaders) :
         /\ importReaders' = WithoutReader(importReaders, i)
         /\ importRead' = [state |-> "failed", file |-> importReaders[i]]
    /\ lastEvent' = "error"
    /\ UNCHANGED <<baseColor, schemeType, generatedPalette, currentPalette,
                   themePalette, palettes, effectPending, eventCount,
                   editVars>>

\* No import has been started.
ImportIdle == importReaders = <<>> /\ importRead = NoRead

-----------------------------------------------------------------------------
(* The ThemeProvider of src/src/contexts/ThemeContext.tsx with the header  *)
(* button of src/src/App.tsx, and the store of                             *)
(* src/src/store/useThemeStore.ts (lines 17-79).  The provider's palettes  *)
(* and currentPalette are the variables palettes and themePalette.  A      *)
(* palette argument without a name carries the empty name, which           *)
(* `palette.name || ...` treats as a missing one.                          *)

\* Largest number of provider, store and header operations run.
MaxOps == 2

\* An operation runs once the pending darkMode effect has run.
OpEnabled == ~darkEffectPending /\ opCount < MaxOps

\* JSON.stringify(darkMode)
StringifyBool(b) == IF b THEN "true" ELSE "false"

\* useEffect(..., [darkMode]) of the provider (lines 39-42).
DarkModeEffect ==
    /\ darkEffectPending
    /\ localDarkMode' = StringifyBool(darkMode)
    /\ rootDark' = darkMode
    /\ darkEffectPending' = FALSE
    /\ lastOp' = [op |-> "darkModeEffect", name |-> "", before |-> 0]
    /\ UNCHANGED <<darkMode, storeDarkMode, storePalettes, storeCurrentPalette,
                   clock, opCount, palettes, themePalette>>

\* toggleDarkMode of the provider (lines 48-50).
toggleDarkMode ==
    /\ OpEnabled
    /\ darkMode' = ~darkMode
    /\ darkEffectPending' = TRUE
    /\ lastOp' = [op |-> "toggleDarkMode", name |-> "", before |-> 0]
    /\ opCount' = opCount + 1
    /\ UNCHANGED <<localDarkMode, rootDark, storeDarkMode, storePalettes,
                   storeCurrentPalette, clock, palettes, themePalette>>

\* onClick of the header button of App (App.tsx line 37).
HeaderToggle ==
    /\ OpEnabled
    /\ rootDark' = ~rootDark
    /\ lastOp' = [op |-> "headerToggle", name |-> "", before |-> 0]
    /\ opCount' = opCount + 1
    /\ UNCHANGED <<darkMode, localDarkMode, darkEffectPending, storeDarkMode,
                   storePalettes, storeCurrentPalette, clock, palettes,
                   themePalette>>

\* toggleDarkMode of the store (lines 31-37).
storeToggleDarkMode ==
    /\ OpEnabled
    /\ storeDarkMode' = ~storeDarkMode
    /\ rootDark' = ~storeDarkMode
    /\ lastOp' = [op |-> "store.toggleDarkMode", name |-> "", before |-> 0]
    /\ opCount' = opCount + 1
    /\ UNCHANGED <<darkMode, localDarkMode, darkEffectPending, storePalettes,
                   storeCurrentPalette, clock, palettes, themePalette>>


\* Base colours and scheme indices drawn by generateRandomPalette here.
ThemeRandomColors == { <<"#","3","b","8","2","f","6">> }
ThemeRandomIndices == {1}

\* generateNewPalette of the provider (lines 52-56).
generateNewPalette ==
    /\ OpEnabled
    /\ \E base \in ThemeRandomColors, index \in ThemeRandomIndices :
         \E newPalette \in
               {generateRandomPalette(PaletteName(Len(palettes) + 1), base, index, 0)} :
             /\ themePalette' = newPalette
             /\ palettes' = <<newPalette>> \o palettes
             /\ lastOp' = [op |-> "generateNewPalette", name |-> newPalette.name,
                           before |-> Len(palettes)]
    /\ opCount' = opCount + 1
    /\ UNCHANGED <<darkMode, localDarkMode, rootDark, darkEffectPending,
                   storeDarkMode, storePalettes, storeCurrentPalette, clock>>

\* Palettes handed to savePalette: two colour sets, each without a name and
\* under the name "Palette 2".
SaveNames == {"", "Palette 2"}

SaveColors ==
    { << <<"#","4","F","4","6","E","5">>, <<"#","7","C","3","A","E","D">>,
         <<"#","E","C","4","8","9","9">> >>,
      << <<"#","1","0","B","9","8","1">>, <<"#","F","5","9","E","0","B">> >> }

SaveArguments ==
    { [name |-> n, colors |-> c, primary |-> c[1], secondary |-> c[2],
       accent |-> c[Len(c)], background |-> <<"#","f","f","f","f","f","f">>,
       text |-> <<"#","1","1","1","8","2","7">>] :
      n \in SaveNames, c \in SaveColors }

\* savePalette of the provider (lines 58-77) at clock reading t.
savePalette ==
    /\ OpEnabled
    /\ \E arg \in SaveArguments, t \in {clock + 1} :
         \E paletteWithName \in {PaletteWithName(arg, t)} :
             /\ palettes' = SavedInto(palettes, paletteWithName)
             /\ themePalette' = paletteWithName
             /\ clock' = t
             /\ lastOp' = [op |-> "savePalette", name |-> arg.name,
                           before |-> Len(palettes)]
    /\ opCount' = opCount + 1
    /\ UNCHANGED <<darkMode, localDarkMode, rootDark, darkEffectPending,
                   storeDarkMode, storePalettes, storeCurrentPalette>>

\* Names handed to deletePalette: those of the saved palettes and one that
\* is never saved.
DeleteNames(saved) == {saved[i].name : i \in 1..Len(saved)} \cup {"Absent"}

\* deletePalette leaving the current palette as it is.
deletePalette_CurrentKept ==
    /\ OpEnabled
    /\ \E name \in DeleteNames(palettes) :
         /\ palettes' = filterByName(palettes, name)
         /\ lastOp' = [op |-> "deletePalette", name |-> name,
                       before |-> Len(palettes)]
    /\ opCount' = opCount + 1
    /\ UNCHANGED <<darkMode, localDarkMode, rootDark, darkEffectPending,
                   storeDarkMode, storePalettes, storeCurrentPalette, clock,
                   themePalette>>

\* deletePalette of the provider (lines 79-91).
deletePalette ==
    /\ OpEnabled
    /\ \E name \in DeleteNames(palettes) :
         \E newPalettes \in {filterByName(palettes, name)} :
             /\ themePalette' =
                   CurrentAfterDelete(themePalette, newPalettes, name)
             /\ palettes' = newPalettes
             /\ lastOp' = [op |-> "deletePalette", name |-> name,
                           before |-> Len(palettes)]
    /\ opCount' = opCount + 1
    /\ UNCHANGED <<darkMode, localDarkMode, rootDark, darkEffectPending,
                   storeDarkMode, storePalettes, storeCurrentPalette, clock>>

\* Palettes handed to setCurrentPalette of the provider: the saved ones and
\* the named ones of SaveArguments.
UpdateArguments ==
    {palettes[i] : i \in 1..Len(palettes)}
    \cup {arg \in SaveArguments : arg.name # ""}

\* updateCurrentPalette of the provider (lines 93-95), which it hands out
\* as setCurrentPalette (line 119).
updateCurrentPalette ==
    /\ OpEnabled
    /\ \E arg \in UpdateArguments :
         /\ themePalette' = arg
         /\ lastOp' = [op |-> "setCurrentPalette", name |-> arg.name,
                       before |-> Len(palettes)]
    /\ opCount' = opCount + 1
    /\ UNCHANGED <<darkMode, localDarkMode, rootDark, darkEffectPending,
                   storeDarkMode, storePalettes, storeCurrentPalette, clock,
                   palettes>>

\* generateNewPalette of the store (lines 38-41).
storeGenerateNewPalette ==
    /\ OpEnabled
    /\ \E base \in ThemeRandomColors, index \in ThemeRandomIndices :
         \E newPalette \in {generateRandomPalette("New Palette", base, index, 0)} :
             storeCurrentPalette' = newPalette
    /\ lastOp' = [op |-> "store.generateNewPalette", name |-> "New Palette",
                  before |-> Len(storePalettes)]
    /\ opCount' = opCount + 1
    /\ UNCHANGED <<darkMode, localDarkMode, rootDark, darkEffectPending,
                   storeDarkMode, storePalettes, clock, palettes, themePalette>>

\* palette.createdAt is there and not empty.
HasCreatedAt(arg) == "createdAt" \in DOMAIN arg /\ arg.createdAt # ""

\* The entry savePalette of the store builds (lines 46-51) from its
\* argument: every property of the argument, then name, updatedAt from the
\* clock reading t of line 49 and createdAt, which is the one the argument
\* carries or else comes from the clock reading u of line 50.
StoreEntry(arg, name, t, u) ==
    [property \in DOMAIN arg \cup {"name", "updatedAt", "createdAt"} |->
        IF property = "name" THEN name
        ELSE IF property = "updatedAt" THEN ToISOString(t)
        ELSE IF property = "createdAt"
        THEN IF HasCreatedAt(arg) THEN arg.createdAt ELSE ToISOString(u)
        ELSE arg[property]]

\* state.palettes.findIndex(p => p.name === name), from 1; 0 for -1.
findIndex(saved, name) ==
    IF someNamed(saved, name)
    THEN CHOOSE i \in 1..Len(saved) :
           /\ saved[i].name = name
           /\ \A j \in 1..(i - 1) : saved[j].name # name
    ELSE 0

\* A palette object that carries a property of its own besides those of
\* ColorPalette.
IdentifiedPalette ==
    LET arg == CHOOSE a \in SaveArguments : a.name = "Palette 2"
    IN [property \in DOMAIN arg \cup {"id"} |->
          IF property = "id" THEN "p-1" ELSE arg[property]]

\* Arguments of savePalette of the store: those of the provider, a palette
\* with a property of its own, the current palette of the store and the
\* entries saved so far.
StoreSaveArguments ==
    SaveArguments \cup {IdentifiedPalette, storeCurrentPalette}
    \cup {storePalettes[i] : i \in 1..Len(storePalettes)}

\* savePalette of the store (lines 42-61).  The clock is read at t for
\* updatedAt and, when the argument carries no createdAt, again at u, in
\* the same millisecond or in the next one.
storeSavePalette ==
    /\ OpEnabled
    /\ \E arg \in StoreSaveArguments, t \in {clock + 1} :
       \E u \in (IF HasCreatedAt(arg) THEN {t} ELSE {t, t + 1}) :
         \E name \in
               {IF arg.name # "" THEN arg.name
                ELSE PaletteName(Len(storePalettes) + 1)} :
           \E existingIndex \in {findIndex(storePalettes, name)} :
             /\ storePalettes' =
                   IF existingIndex >= 1
                   THEN [storePalettes EXCEPT
                           ![existingIndex] = StoreEntry(arg, name, t, u)]
                   ELSE Append(storePalettes, StoreEntry(arg, name, t, u))
             /\ clock' = u
             /\ lastOp' = [op |-> "store.savePalette", name |-> arg.name,
                           before |-> Len(storePalettes)]
    /\ opCount' = opCount + 1
    /\ UNCHANGED <<darkMode, localDarkMode, rootDark, darkEffectPending,
                   storeDarkMode, storeCurrentPalette, palettes, themePalette>>

\* deletePalette of the store (lines 62-66).
storeDeletePalette ==
    /\ OpEnabled
    /\ \E name \in DeleteNames(storePalettes) :
         /\ storePalettes' = filterByName(storePalettes, name)
         /\ lastOp' = [op |-> "store.deletePalette", name |-> name,
                       before |-> Len(storePalettes)]
    /\ opCount' = opCount + 1
    /\ UNCHANGED <<darkMode, localDarkMode, rootDark, darkEffectPending,
                   storeDarkMode, storeCurrentPalette, clock, palettes,
                   themePalette>>

\* setCurrentPalette of the store (lines 67-69), called on a saved palette.
storeSetCurrentPalette ==
    /\ OpEnabled
    /\ \E i \in 1..Len(storePalettes) :
         /\ storeCurrentPalette' = storePalettes[i]
         /\ lastOp' = [op |-> "store.setCurrentPalette",
                       name |-> storePalettes[i].name,
                       before |-> Len(storePalettes)]
    /\ opCount' = opCount + 1
    /\ UNCHANGED <<darkMode, localDarkMode, rootDark, darkEffectPending,
                   storeDarkMode, storePalettes, clock, palettes, themePalette>>

\* A palette a previous session generated and left in localStorage.
EarlierPalette ==
    generateRandomPalette("Palette 2", <<"#","f","f","0","0","0","1">>, 1, 0)

\* Two entries a previous session saved in the store.
EarlierStoreEntries ==
    << StoreEntry(CHOOSE a \in SaveArguments : a.name = "" , "Palette 1", 0, 0),
       StoreEntry(CHOOSE a \in SaveArguments : a.name = "Palette 2", "Palette 2", 0, 0) >>

\* Initial state of the provider (lines 20-36) and of the store (lines
\* 20-30, then the persisted darkMode and palettes), before the first
\* darkMode effect; the document root starts without the class.
AppInit ==
    /\ localDarkMode \in {"null", "true", "false"}
    /\ darkMode \in (IF localDarkMode = "null" THEN BOOLEAN
                     ELSE {localDarkMode = "true"})
    /\ rootDark = FALSE
    /\ darkEffectPending = TRUE
    /\ palettes \in {<<defaultPalette>>, <<EarlierPalette, defaultPalette>>}
    /\ themePalette = defaultPalette
    /\ storeDarkMode = FALSE
    /\ storePalettes \in {<<>>, EarlierStoreEntries}
    /\ storeCurrentPalette = defaultPalette
    /\ clock = 0
    /\ lastOp = [op |-> "mount", name |-> "", before |-> 0]
    /\ opCount = 0

\* Neither the provider nor the store is in use.
AppIdle ==
    /\ darkMode = FALSE /\ localDarkMode = "null" /\ rootDark = FALSE
    /\ darkEffectPending = FALSE /\ storeDarkMode = FALSE
    /\ storePalettes = <<>> /\ storeCurrentPalette = defaultPalette
    /\ clock = 0 /\ lastOp = [op |-> "idle", name |-> "", before |-> 0]
    /\ opCount = 0

\* The component is not mounted; the provider's palettes are in use.
ComponentIdle ==
    /\ baseColor = <<>> /\ schemeType = "LuminosityContrast"
    /\ generatedPalette = <<>> /\ currentPalette = defaultPalette
    /\ effectPending = FALSE /\ lastEvent = "idle" /\ eventCount = 0
    /\ EditIdle

componentVars == <<baseColor, schemeType, generatedPalette, currentPalette,
                   effectPending, lastEvent, eventCount, editVars>>

-----------------------------------------------------------------------------
(* debounce of src/src/lib/utils.ts (lines 100-110): the function it       *)
(* returns, called at any time, and the timers it sets.  A timer set by    *)
(* setTimeout(f, wait) fires once wait has elapsed, possibly later;        *)
(* timer ids start at 1.                                                   *)

\* The last time of the clock.
MaxTime == 5

\* Largest number of calls of the debounced function.
MaxCalls == 3

\* The values of wait and the arguments of the calls.
Waits == {0, 2}
CallArguments == {"a", "b"}

\* The debounced function with the previous timer left running.
DebouncedCall_NoClear ==
    /\ Len(SelectSeq(dbLog, LAMBDA e : e.kind = "call")) < MaxCalls
    /\ \E args \in CallArguments :
         /\ dbTimers' = dbTimers
                \cup {[id |-> dbNextId, due |-> dbNow + dbWait, args |-> args]}
         /\ dbLog' = Append(dbLog, [kind |-> "call", time |-> dbNow, args |-> args])
    /\ dbTimeout' = dbNextId
    /\ dbNextId' = dbNextId + 1
    /\ UNCHANGED <<dbWait, dbNow>>

\* The function debounce returns (lines 106-109), called with args.
DebouncedCall ==
    /\ Len(SelectSeq(dbLog, LAMBDA e : e.kind = "call")) < MaxCalls
    /\ \E args \in CallArguments :
         /\ dbTimers' =
                (IF dbTimeout # 0
                 THEN {t \in dbTimers : t.id # dbTimeout} ELSE dbTimers)
                \cup {[id |-> dbNextId, due |-> dbNow + dbWait, args |-> args]}
         /\ dbLog' = Append(dbLog, [kind |-> "call", time |-> dbNow, args |-> args])
    /\ dbTimeout' = dbNextId
    /\ dbNextId' = dbNextId + 1
    /\ UNCHANGED <<dbWait, dbNow>>

\* A timer fires: () => func.apply(this, args) (line 108).
TimerFires ==
    /\ \E t \in dbTimers :
         /\ t.due <= dbNow
         /\ dbTimers' = dbTimers \ {t}
         /\ dbLog' = Append(dbLog, [kind |-> "run", time |-> dbNow, args |-> t.args])
    /\ UNCHANGED <<dbWait, dbTimeout, dbNextId, dbNow>>

\* A millisecond passes.
Tick ==
    /\ dbNow < MaxTime
    /\ dbNow' = dbNow + 1
    /\ UNCHANGED <<dbWait, dbTimeout, dbTimers, dbNextId, dbLog>>

\* debounce(func, wait) has returned (line 104: timeout = null).
DebounceInit ==
    /\ dbWait \in Waits
    /\ dbTimeout = 0
    /\ dbTimers = {}
    /\ dbNextId = 1
    /\ dbNow = 0
    /\ dbLog = <<>>

\* debounce is not in use.
DebounceIdle ==
    /\ dbWait = 0 /\ dbTimeout = 0 /\ dbTimers = {} /\ dbNextId = 1
    /\ dbNow = 0 /\ dbLog = <<>>

-----------------------------------------------------------------------------
(* Inputs                                                                  *)

Hex6(r, g, b, digits) ==
    << "#", digits[(r \div 16) + 1], digits[(r % 16) + 1],
            digits[(g \div 16) + 1], digits[(g % 16) + 1],
            digits[(b \div 16) + 1], digits[(b % 16) + 1] >>

Hex3(r, g, b, digits) == << "#", digits[r + 1], digits[g + 1], digits[b + 1] >>

\* Number of equal steps of the channel grid 0 .. 255 the inputs are drawn
\* from.
GridSteps == 3

MaxChannel == 255

Grid == {(MaxChannel * k) \div GridSteps : k \in 0..GridSteps}

\* Channel values of the base colours handed to generatePalette.
GenLevels == Grid \cup {128, 204}

\* Further base colours: the App's default #4F46E5, #FF0001, #02E4E6 and the
\* two greys of the MonochromaticAchromatic case.
GenExtra == {<<79, 70, 229>>, <<255, 0, 1>>, <<2, 228, 230>>,
             <<229, 231, 235>>, <<75, 85, 99>>}

ValidGenInputs ==
    {Hex6(r, g, b, UpperDigits) : r \in GenLevels, g \in GenLevels, b \in GenLevels}
    \cup {Hex6(t[1], t[2], t[3], UpperDigits) : t \in GenExtra}
    \cup {Hex6(v, v, v, LowerDigits) : v \in {128, 204, 255}}
    \cup {Hex6(255, 0, 0, LowerDigits), Hex6(79, 70, 229, LowerDigits)}
    \cup {Hex3(10, 11, 12, UpperDigits), Hex3(15, 0, 0, UpperDigits),
          Hex3(15, 15, 15, LowerDigits), Hex3(8, 8, 8, UpperDigits)}

\* Strings that fail the hex regex: "", "#12", "blue", "#GGG"-like "#lll",
\* "#12345", "FF0000" without '#', and strings of seven characters that
\* parseInt reads with a sign, a 0x prefix or leading white space:
\* "#+fffff", "#0x0000", "# f0000", "#-10000".
InvalidGenInputs ==
    { <<>>, <<"#","1","2">>, <<"b","l","u","e">>, <<"#","l","l","l">>,
      <<"#","1","2","3","4","5">>, <<"F","F","0","0","0","0">>,
      <<"#","+","f","f","f","f","f">>, <<"#","0","x","0","0","0","0">>,
      <<"#"," ","f","0","0","0","0">>, <<"#","-","1","0","0","0","0">> }

GenInputs == ValidGenInputs \cup InvalidGenInputs

\* Strings whose length is neither 4 nor 7: "", "#", "#12", "#12345",
\* "FF0000", "#FF00001", "#FFFFFFFF".
WrongLengthInputs ==
    { <<>>, <<"#">>, <<"#","1","2">>, <<"#","1","2","3","4","5">>,
      <<"F","F","0","0","0","0">>, <<"#","F","F","0","0","0","0","1">>,
      <<"#","F","F","F","F","F","F","F","F">> }

\* Channel values of the colours of the converter round trip, beside the
\* 256 greys.
ConvLevels == Grid \cup {1, 2, 128, 228, 230}

ConvInputs ==
    {Hex6(r, g, b, UpperDigits) : r \in ConvLevels, g \in ConvLevels, b \in ConvLevels}
    \cup {Hex6(v, v, v, UpperDigits) : v \in 0..MaxChannel}
    \cup {Hex6(t[1], t[2], t[3], LowerDigits) : t \in GenExtra}
    \cup {Hex3(r, g, b, UpperDigits) : r \in {0, 8, 15}, g \in {0, 10, 15}, b \in {0, 1, 15}}
    \cup {Hex3(10, 11, 12, LowerDigits)}
    \cup WrongLengthInputs

-----------------------------------------------------------------------------
(* generatePalette called on an argument pair                              *)

GenInit ==
    /\ baseHex \in GenInputs
    /\ scheme \in Schemes
    /\ palette = <<>>
    /\ pc = "call"

Generate ==
    /\ pc = "call"
    /\ palette' = generatePalette(baseHex, scheme)
    /\ pc' = "done"
    /\ UNCHANGED <<baseHex, scheme>>

\* The palette callback without the regex test.
MemoPalette_NoTest(color, sch) == generatePalette(color, sch)

\* const palette = useMemo(...) of App: the regex test, then generatePalette.
MemoPalette(color, sch) ==
    IF ~IsValidHex(color) THEN <<>> ELSE generatePalette(color, sch)

\* The App's palette callback run on the same argument pair.
AppPalette ==
    /\ pc = "call"
    /\ palette' = MemoPalette(baseHex, scheme)
    /\ pc' = "memo"
    /\ UNCHANGED <<baseHex, scheme>>

(* The converter round trip hslToHex(hexToHsl(X))                          *)

ConvInit ==
    /\ convHex \in ConvInputs
    /\ convHsl = [h |-> 0, s |-> 0, l |-> 0]
    /\ convBack = <<>>
    /\ convPc = "hex"

Convert ==
    /\ convPc = "hex"
    /\ convHsl' = hexToHsl(convHex)
    /\ convPc' = "hsl"
    /\ UNCHANGED <<convHex, convBack>>

ConvertBack ==
    /\ convPc = "hsl"
    /\ convBack' = hslToHex(convHsl.h, convHsl.s, convHsl.l)
    /\ convPc' = "back"
    /\ UNCHANGED <<convHex, convHsl>>

(* getShades called on a target hue, a label and a base saturation and    *)
(* lightness                                                               *)

\* Number of equal steps of the hue circle the target hues are drawn from.
HueSteps == 12

ShadeHues == {(360 * k) \div HueSteps : k \in 0..(HueSteps - 1)}

\* Base saturation and lightness values, around the clamps of getShades.
ShadeLevels == {0, 5, 10, 15, 20, 50, 70, 80, 85, 90, 95, 100}

ShadesInit ==
    /\ callee = "getShades"
    /\ callArgs \in {<<h, label, S, L>> : h \in ShadeHues,
                         label \in {"Triadico 1", "Analogo 2"},
                         S \in ShadeLevels, L \in ShadeLevels}
    /\ callResult = <<>>
    /\ callPc = "call"

CallGetShades ==
    /\ callPc = "call"
    /\ callee = "getShades"
    /\ callResult' = getShades(callArgs[1], callArgs[2], callArgs[3], callArgs[4])
    /\ callPc' = "returned"
    /\ UNCHANGED <<callee, callArgs>>

(* normalizeHue called on an integer                                       *)

\* Largest magnitude of the integers handed to normalizeHue.
HueRange == 800

HueInit ==
    /\ callee = "normalizeHue"
    /\ callArgs \in {<<h>> : h \in (0 - HueRange)..HueRange}
    /\ callResult = <<>>
    /\ callPc = "call"

CallNormalizeHue ==
    /\ callPc = "call"
    /\ callee = "normalizeHue"
    /\ callResult' = normalizeHue(callArgs[1])
    /\ callPc' = "returned"
    /\ UNCHANGED <<callee, callArgs>>

(* getContrastText and getTextColor called on a background colour          *)

\* Channel values of the backgrounds, beside the 256 greys.
TextLevels == Grid \cup {58, 102, 128, 188, 218, 248}

\* Further backgrounds: #5ACBDB, whose luminance is the one nearest above
\* 0.5, and #A166AB, the least luminous colour getTextColor answers with
\* black; lowercase, '#'-less and shorthand strings.
TextInputs ==
    {Hex6(r, g, b, UpperDigits) : r \in TextLevels, g \in TextLevels, b \in TextLevels}
    \cup {Hex6(v, v, v, UpperDigits) : v \in 0..MaxChannel}
    \cup {Hex6(90, 203, 219, UpperDigits), Hex6(161, 102, 171, UpperDigits),
          Hex6(255, 255, 255, LowerDigits), Hex6(79, 70, 229, LowerDigits),
          Tail(Hex6(255, 255, 255, UpperDigits)),
          Hex3(15, 15, 15, UpperDigits), Hex3(0, 0, 0, UpperDigits)}

TextInit ==
    /\ callee \in {"getContrastText", "getTextColor"}
    /\ callArgs \in {<<bg>> : bg \in TextInputs}
    /\ callResult = <<>>
    /\ callPc = "call"

CallGetContrastText ==
    /\ callPc = "call"
    /\ callee = "getContrastText"
    /\ callResult' = getContrastText(callArgs[1])
    /\ callPc' = "returned"
    /\ UNCHANGED <<callee, callArgs>>

CallGetTextColor ==
    /\ callPc = "call"
    /\ callee = "getTextColor"
    /\ callResult' = getTextColor(callArgs[1])
    /\ callPc' = "returned"
    /\ UNCHANGED <<callee, callArgs>>

(* getContrastRatio called on two colours                                  *)

\* Channel values of the two colours.
RatioLevels == Grid \cup {128}

RatioInputs ==
    {Hex6(r, g, b, UpperDigits) : r \in RatioLevels, g \in RatioLevels, b \in RatioLevels}
    \cup {Hex6(255, 255, 255, LowerDigits), Hex6(79, 70, 229, LowerDigits),
          Tail(Hex6(255, 0, 0, UpperDigits)),
          Hex3(15, 15, 15, UpperDigits), Hex3(0, 0, 0, UpperDigits)}

RatioInit ==
    /\ callee = "getContrastRatio"
    /\ callArgs \in {<<a, b>> : a \in RatioInputs, b \in RatioInputs}
    /\ callResult = <<>>
    /\ callPc = "call"

CallGetContrastRatio ==
    /\ callPc = "call"
    /\ callee = "getContrastRatio"
    /\ callResult' = getContrastRatio(callArgs[1], callArgs[2])
    /\ callPc' = "returned"
    /\ UNCHANGED <<callee, callArgs>>

(* generateMonochromatic and generateLuminosityContrast of the store       *)

\* Base colours: the grid, and #ff0001, #ff0002, #800001, #ff0102, reds
\* with a trace of blue.
StoreGenInputs ==
    {Hex6(r, g, b, LowerDigits) : r \in GenLevels, g \in GenLevels, b \in GenLevels}
    \cup {Hex6(255, 0, 1, LowerDigits), Hex6(255, 0, 2, LowerDigits),
          Hex6(128, 0, 1, LowerDigits), Hex6(255, 1, 2, LowerDigits)}

\* Lightness arguments of generateLuminosityContrast.
StoreGenLightness == {10, 50, 90}

StoreGenInit ==
    /\ \/ /\ callee = "generateMonochromatic"
          /\ callArgs \in {<<base>> : base \in StoreGenInputs}
       \/ /\ callee = "generateLuminosityContrast"
          /\ callArgs \in {<<base, lightness>> :
                              base \in StoreGenInputs,
                              lightness \in StoreGenLightness}
    /\ callResult = <<>>
    /\ callPc = "call"

CallGenerateMonochromatic ==
    /\ callPc = "call"
    /\ callee = "generateMonochromatic"
    /\ callResult' = generateMonochromatic(callArgs[1])
    /\ callPc' = "returned"
    /\ UNCHANGED <<callee, callArgs>>

\* The colour returned, as a list of one colour.
CallGenerateLuminosityContrast ==
    /\ callPc = "call"
    /\ callee = "generateLuminosityContrast"
    /\ callResult' = <<storeGenerateLuminosityContrast(callArgs[1], callArgs[2])>>
    /\ callPc' = "returned"
    /\ UNCHANGED <<callee, callArgs>>

-----------------------------------------------------------------------------
(* The ColorCard of src/src/components/ColorCard.tsx with copyToClipboard  *)
(* of src/src/lib/utils.ts                                                 *)

\* Largest time at which the clock still advances, in milliseconds.
MaxCardTime == 3000

\* Largest number of clicks on the copy button.
MaxClicks == 2

\* setTimeout(() => setCopied(false), 2000)
CopiedDelay == 2000

\* What navigator.clipboard.writeText does: it writes the text, its promise
\* rejects (permission denied), or navigator.clipboard is undefined and the
\* call throws.
WriteOutcomes == {"written", "rejected", "unavailable"}

\* copyToClipboard (utils.ts, lines 35-43): how its promise settles for an
\* outcome of the write.
copyToClipboard(outcome) ==
    IF outcome = "written" THEN [settled |-> "resolved", value |-> TRUE]
    ELSE [settled |-> "resolved", value |-> FALSE]

\* Colours of the card.
CardColors == {<<"#","4","F","4","6","E","5">>, <<"#","f","f","0","0","0","0">>}

\* No promise has settled.
NoPromise == [settled |-> "none", value |-> FALSE]

CardInit ==
    /\ cardColor \in CardColors
    /\ copied = FALSE
    /\ showTooltip = FALSE
    /\ clipboard \in {<<>>, <<"o","l","d">>}
    /\ cardCopies = 0
    /\ cardTimers = <<>>
    /\ cardNow = 0
    /\ cardLast = [op |-> "mount", promise |-> NoPromise]
    /\ cardClicks = 0

\* handleCopy (lines 29-35) up to the call of copyToClipboard, which awaits
\* the write.
handleCopy ==
    /\ cardClicks < MaxClicks
    /\ cardClicks' = cardClicks + 1
    /\ cardCopies' = cardCopies + 1
    /\ cardLast' = [op |-> "click", promise |-> NoPromise]
    /\ UNCHANGED <<cardColor, copied, showTooltip, clipboard, cardTimers,
                   cardNow>>

\* A pending write ends, copyToClipboard settles and the callback handed to
\* then (lines 32-33) runs if the promise resolved.
CopySettles ==
    /\ cardCopies > 0
    /\ cardCopies' = cardCopies - 1
    /\ \E outcome \in WriteOutcomes :
         LET promise == copyToClipboard(outcome)
         IN  /\ clipboard' = IF outcome = "written" THEN cardColor
                             ELSE clipboard
             /\ cardLast' = [op |-> "settle", promise |-> promise]
             /\ IF promise.settled = "resolved"
                THEN /\ copied' = TRUE
                     /\ cardTimers' = Append(cardTimers, cardNow + CopiedDelay)
                ELSE UNCHANGED <<copied, cardTimers>>
    /\ UNCHANGED <<cardColor, showTooltip, cardNow, cardClicks>>

\* A timer of line 33 fires: setCopied(false).
CopiedTimerFires ==
    /\ \E i \in 1..Len(cardTimers) :
         /\ cardTimers[i] <= cardNow
         /\ cardTimers' = [k \in 1..(Len(cardTimers) - 1) |->
                              IF k < i THEN cardTimers[k]
                              ELSE cardTimers[k + 1]]
    /\ copied' = FALSE
    /\ cardLast' = [op |-> "timer", promise |-> NoPromise]
    /\ UNCHANGED <<cardColor, showTooltip, clipboard, cardCopies, cardNow,
                   cardClicks>>

\* onMouseEnter and onMouseLeave of the card (lines 49-50).
MouseEnter ==
    /\ ~showTooltip
    /\ showTooltip' = TRUE
    /\ cardLast' = [op |-> "enter", promise |-> NoPromise]
    /\ UNCHANGED <<cardColor, copied, clipboard, cardCopies, cardTimers,
                   cardNow, cardClicks>>

MouseLeave ==
    /\ showTooltip
    /\ showTooltip' = FALSE
    /\ cardLast' = [op |-> "leave", promise |-> NoPromise]
    /\ UNCHANGED <<cardColor, copied, clipboard, cardCopies, cardTimers,
                   cardNow, cardClicks>>

\* A second passes.
CardTick ==
    /\ cardNow < MaxCardTime
    /\ cardNow' = cardNow + 1000
    /\ cardLast' = [op |-> "tick", promise |-> NoPromise]
    /\ UNCHANGED <<cardColor, copied, showTooltip, clipboard, cardCopies,
                   cardTimers, cardClicks>>

\* No card is mounted.
CardIdle ==
    /\ cardColor = <<>> /\ copied = FALSE /\ showTooltip = FALSE
    /\ clipboard = <<>> /\ cardCopies = 0 /\ cardTimers = <<>>
    /\ cardNow = 0 /\ cardLast = [op |-> "idle", promise |-> NoPromise]
    /\ cardClicks = 0

-----------------------------------------------------------------------------
(* Specifications                                                          *)

GenIdle == /\ baseHex = <<>> /\ scheme = "LuminosityContrast"
           /\ palette = <<>> /\ pc = "idle"
ConvIdle == /\ convHex = <<>> /\ convHsl = [h |-> 0, s |-> 0, l |-> 0]
            /\ convBack = <<>> /\ convPc = "idle"
CallIdle == /\ callee = "" /\ callArgs = <<>> /\ callResult = <<>>
            /\ callPc = "idle"

\* generatePalette, and the App's palette callback, on drawn arguments.
Init ==
    /\ GenInit /\ ConvIdle /\ CallIdle /\ UiIdle /\ AppIdle /\ DebounceIdle
    /\ ImportIdle /\ CardIdle

Next ==
    \/ Generate /\ UNCHANGED <<convVars, callVars, uiVars, appVars, dbVars, importVars, cardVars>>
    \/ AppPalette /\ UNCHANGED <<convVars, callVars, uiVars, appVars, dbVars, importVars, cardVars>>

Spec == Init /\ [][Next]_vars

\* The converter round trip on drawn hex strings.
InitConv ==
    /\ ConvInit /\ GenIdle /\ CallIdle /\ UiIdle /\ AppIdle /\ DebounceIdle
    /\ ImportIdle /\ CardIdle

NextConv ==
    \/ Convert /\ UNCHANGED <<genVars, callVars, uiVars, appVars, dbVars, importVars, cardVars>>
    \/ ConvertBack /\ UNCHANGED <<genVars, callVars, uiVars, appVars, dbVars, importVars, cardVars>>

SpecConv == InitConv /\ [][NextConv]_vars

\* getShades on drawn arguments.
InitShades ==
    /\ ShadesInit /\ GenIdle /\ ConvIdle /\ UiIdle /\ AppIdle /\ DebounceIdle
    /\ ImportIdle /\ CardIdle

NextShades == CallGetShades /\ UNCHANGED <<genVars, convVars, uiVars, appVars, dbVars, importVars, cardVars>>

SpecShades == InitShades /\ [][NextShades]_vars

\* normalizeHue on drawn integers.
InitHue ==
    /\ HueInit /\ GenIdle /\ ConvIdle /\ UiIdle /\ AppIdle /\ DebounceIdle
    /\ ImportIdle /\ CardIdle

NextHue == CallNormalizeHue /\ UNCHANGED <<genVars, convVars, uiVars, appVars, dbVars, importVars, cardVars>>

SpecHue == InitHue /\ [][NextHue]_vars

\* getContrastText and getTextColor on drawn backgrounds.
InitText ==
    /\ TextInit /\ GenIdle /\ ConvIdle /\ UiIdle /\ AppIdle /\ DebounceIdle
    /\ ImportIdle /\ CardIdle

NextText ==
    \/ CallGetContrastText /\ UNCHANGED <<genVars, convVars, uiVars, appVars, dbVars, importVars, cardVars>>
    \/ CallGetTextColor /\ UNCHANGED <<genVars, convVars, uiVars, appVars, dbVars, importVars, cardVars>>

SpecText == InitText /\ [][NextText]_vars

\* getContrastRatio on drawn pairs of colours.
InitRatio ==
    /\ RatioInit /\ GenIdle /\ ConvIdle /\ UiIdle /\ AppIdle /\ DebounceIdle
    /\ ImportIdle /\ CardIdle

NextRatio == CallGetContrastRatio /\ UNCHANGED <<genVars, convVars, uiVars, appVars, dbVars, importVars, cardVars>>

SpecRatio == InitRatio /\ [][NextRatio]_vars

\* generateMonochromatic and generateLuminosityContrast of the store on drawn
\* base colours.
InitStoreGen ==
    /\ StoreGenInit /\ GenIdle /\ ConvIdle /\ UiIdle /\ AppIdle /\ DebounceIdle
    /\ ImportIdle /\ CardIdle

StoreGenRest == <<genVars, convVars, uiVars, appVars, dbVars, importVars, cardVars>>

NextStoreGen ==
    \/ CallGenerateMonochromatic /\ UNCHANGED StoreGenRest
    \/ CallGenerateLuminosityContrast /\ UNCHANGED StoreGenRest

SpecStoreGen == InitStoreGen /\ [][NextStoreGen]_vars

\* The ColorPaletteGenerator component: the palette effect and the handlers
\* of the base colour, the scheme, a colour selection, the saved palettes,
\* "generate new", the palette name, saving, the tabs and the import.
InitUi ==
    /\ UiInit /\ GenIdle /\ ConvIdle /\ CallIdle /\ AppIdle /\ DebounceIdle
    /\ ImportIdle /\ CardIdle

UiRest == <<genVars, convVars, callVars, appVars, dbVars, cardVars>>

NextUi ==
    \/ PaletteEffect /\ UNCHANGED <<UiRest, importVars, cardVars>>
    \/ BaseColorTyped /\ UNCHANGED <<UiRest, importVars, cardVars>>
    \/ BaseColorPicked /\ UNCHANGED <<UiRest, importVars, cardVars>>
    \/ SchemeSelected /\ UNCHANGED <<UiRest, importVars, cardVars>>
    \/ handleColorSelect /\ UNCHANGED <<UiRest, importVars, cardVars>>
    \/ SavedPaletteUsed /\ UNCHANGED <<UiRest, importVars, cardVars>>
    \/ handleGenerateNew /\ UNCHANGED <<UiRest, importVars, cardVars>>
    \/ NameClicked /\ UNCHANGED <<UiRest, importVars>>
    \/ PaletteNameTyped /\ UNCHANGED <<UiRest, importVars>>
    \/ handleSavePalette /\ UNCHANGED <<UiRest, importVars>>
    \/ SaveSuccessExpires /\ UNCHANGED <<UiRest, importVars>>
    \/ TabToggled /\ UNCHANGED <<UiRest, importVars>>
    \/ NewPaletteTab /\ UNCHANGED <<UiRest, importVars>>
    \/ DeleteClicked /\ UNCHANGED <<UiRest, importVars>>
    \/ handleImportPalette /\ UNCHANGED UiRest
    \/ ReaderLoads /\ UNCHANGED UiRest
    \/ ReaderFails /\ UNCHANGED UiRest

SpecUi == InitUi /\ [][NextUi]_vars

\* The ThemeProvider with the header button of App, and the store.
InitTheme ==
    /\ AppInit /\ ComponentIdle /\ GenIdle /\ ConvIdle /\ CallIdle
    /\ DebounceIdle /\ ImportIdle /\ CardIdle

ThemeRest ==
    <<genVars, convVars, callVars, componentVars, dbVars, importVars, cardVars>>

NextTheme ==
    \/ DarkModeEffect /\ UNCHANGED ThemeRest
    \/ toggleDarkMode /\ UNCHANGED ThemeRest
    \/ HeaderToggle /\ UNCHANGED ThemeRest
    \/ storeToggleDarkMode /\ UNCHANGED ThemeRest
    \/ generateNewPalette /\ UNCHANGED ThemeRest
    \/ savePalette /\ UNCHANGED ThemeRest
    \/ deletePalette /\ UNCHANGED ThemeRest
    \/ updateCurrentPalette /\ UNCHANGED ThemeRest
    \/ storeGenerateNewPalette /\ UNCHANGED ThemeRest
    \/ storeSavePalette /\ UNCHANGED ThemeRest
    \/ storeDeletePalette /\ UNCHANGED ThemeRest
    \/ storeSetCurrentPalette /\ UNCHANGED ThemeRest

SpecTheme == InitTheme /\ [][NextTheme]_vars

\* A function wrapped by debounce.
InitDebounce ==
    /\ DebounceInit /\ GenIdle /\ ConvIdle /\ CallIdle /\ UiIdle /\ AppIdle
    /\ ImportIdle /\ CardIdle

DebounceRest == <<genVars, convVars, callVars, uiVars, appVars, importVars, cardVars>>

NextDebounce ==
    \/ DebouncedCall /\ UNCHANGED DebounceRest
    \/ TimerFires /\ UNCHANGED DebounceRest
    \/ Tick /\ UNCHANGED DebounceRest

SpecDebounce == InitDebounce /\ [][NextDebounce]_vars

\* A ColorCard: the copy button, the clipboard, the timers and the mouse.
InitCard ==
    /\ CardInit /\ GenIdle /\ ConvIdle /\ CallIdle /\ UiIdle /\ AppIdle
    /\ DebounceIdle /\ ImportIdle

CardRest == <<genVars, convVars, callVars, uiVars, appVars, dbVars, importVars>>

NextCard ==
    \/ handleCopy /\ UNCHANGED CardRest
    \/ CopySettles /\ UNCHANGED CardRest
    \/ CopiedTimerFires /\ UNCHANGED CardRest
    \/ MouseEnter /\ UNCHANGED CardRest
    \/ MouseLeave /\ UNCHANGED CardRest
    \/ CardTick /\ UNCHANGED CardRest

SpecCard == InitCard /\ [][NextCard]_vars

-----------------------------------------------------------------------------
(* Properties of generatePalette                                           *)

\* The colour a well-formed hex string denotes: its three channel values.
ChannelsOf(hex) ==
    IF Len(hex) = 4
    THEN << parseInt16(hex[2], hex[2]), parseInt16(hex[3], hex[3]),
            parseInt16(hex[4], hex[4]) >>
    ELSE << parseInt16(hex[2], hex[3]), parseInt16(hex[4], hex[5]),
            parseInt16(hex[6], hex[7]) >>

Abs(x) == IF x < 0 THEN 0 - x ELSE x

\* Largest channel difference between two well-formed hex strings.
ChannelDist(a, b) ==
    LET x == ChannelsOf(a)
        y == ChannelsOf(b)
    IN  Max2(Abs(x[1] - y[1]), Max2(Abs(x[2] - y[2]), Abs(x[3] - y[3])))

\* '#' followed by six uppercase hex digits.
IsCanonicalHex(hex) ==
    /\ Len(hex) = 7
    /\ hex[1] = "#"
    /\ \A i \in 2..7 : \E k \in 1..16 : UpperDigits[k] = hex[i]

Generated == pc = "done" /\ IsValidHex(baseHex)

\* C1: for every valid base colour B, generatePalette(B,
\* MonochromaticAchromatic) returns exactly the five hex values B, #FFFFFF,
\* #E5E7EB, #4B5563, #000000 in this order.
C1_AchromaticFiveEntries ==
    (Generated /\ scheme = "MonochromaticAchromatic")
        => Hexes(palette) = <<baseHex, White, LightGray, DarkGray, Black>>

\* C2: for every valid base colour and every scheme other than
\* LuminosityContrast, the returned sequence has exactly one entry whose hex
\* is the literal base colour, and it stands at the first position.
C2_OneBaseEntryFirst ==
    (Generated /\ scheme # "LuminosityContrast")
        => {i \in 1..Len(palette) : palette[i].hex = baseHex} = {1}

\* C3: the returned sequence is deduplicated by hex value: no two entries
\* denote the same colour, and of the candidates denoting one colour the
\* first generated is the one kept, with its label.
C3_DedupByHexValue ==
    Generated =>
        LET cands == Candidates(baseHex, scheme)
        IN  /\ \A i, j \in 1..Len(palette) :
                  i # j => ChannelsOf(palette[i].hex) # ChannelsOf(palette[j].hex)
            /\ \A i \in 1..Len(palette) :
                  \E k \in 1..Len(cands) :
                     /\ cands[k] = palette[i]
                     /\ \A m \in 1..(k - 1) :
                           ChannelsOf(cands[m].hex) # ChannelsOf(cands[k].hex)

\* C4 as stated: generatePalette returns an empty sequence, for every
\* scheme, whenever its input fails the hex-validation regex.
C4_GeneratorEmptyOnInvalid ==
    (pc = "done" /\ ~IsValidHex(baseHex)) => palette = <<>>

\* C4 amended: the palette the App computes (regex test, then
\* generatePalette) is empty, for every scheme, whenever the base colour
\* fails the hex-validation regex.
C4_AppPaletteEmptyOnInvalid ==
    (pc = "memo" /\ ~IsValidHex(baseHex)) => palette = <<>>

C4_Witness ==
    /\ pc = "memo"
    /\ baseHex = <<"b","l","u","e">>
    /\ scheme = "Triadic"
    /\ palette = <<>>

\* C5: for every base colour that passes hex validation and every scheme,
\* generatePalette returns a non-empty sequence.
C5_NonEmptyOnValid ==
    Generated => Len(palette) >= 1

C5_Witness ==
    /\ Generated
    /\ scheme = "Monochromatic"
    /\ Len(palette) >= 1
    /\ \A i \in 1..Len(palette) : palette[i].hex # baseHex

\* C9: every hex value in a sequence returned by generatePalette is '#'
\* followed by six uppercase hex digits, also for a lowercase or 3-digit base.
C9_CanonicalUppercaseHex ==
    Generated => \A i \in 1..Len(palette) : IsCanonicalHex(palette[i].hex)

ladderReversed == <<95, 85, 70, 55, 40, 25, 10>>

\* C10: for every valid base colour, generatePalette(B, LuminosityContrast)
\* returns exactly 7 entries, all at the base colour's hue and saturation,
\* whose lightness values are 95, 85, 70, 55, 40, 25, 10 in that order; the
\* literal base colour is not injected as an extra entry.
C10_LuminosityLadder ==
    (Generated /\ scheme = "LuminosityContrast") =>
        LET base == hexToHsl(baseHex)
        IN  /\ Len(palette) = 7
            /\ \A i \in 1..7 :
                  /\ palette[i].hex = hslToHex(base.h, base.s, ladderReversed[i])
                  /\ hexToHsl(palette[i].hex).l = ladderReversed[i]
                  /\ palette[i].description # "Base"

C10_Witness ==
    /\ Generated
    /\ scheme = "LuminosityContrast"
    /\ baseHex = <<"#","8","0","8","0","8","0">>
    /\ Len(palette) = 7
    /\ hexToHsl(palette[1].hex) = [h |-> 0, s |-> 0, l |-> 95]
    /\ hexToHsl(palette[7].hex) = [h |-> 0, s |-> 0, l |-> 10]

\* C11: in the sequence generatePalette returns for LuminosityContrast the
\* darkest value comes first: the first entry has the lowest lightness of
\* the ladder (10) and lightness increases along the sequence.
C11_DarkestFirst ==
    (Generated /\ scheme = "LuminosityContrast") =>
        /\ Len(palette) >= 1
        /\ hexToHsl(palette[1].hex).l = luminositySteps[1]
        /\ \A i \in 1..(Len(palette) - 1) :
              hexToHsl(palette[i].hex).l < hexToHsl(palette[i + 1].hex).l

\* Hue offsets of the hue-based schemes, in table order.
HueOffsets(sch) ==
    CASE sch = "Analogous"          -> <<30, -30>>
      [] sch = "Complementary"      -> <<180, 195, 165>>
      [] sch = "Triadic"            -> <<120, 240>>
      [] sch = "SplitComplementary" -> <<210, 150>>
      [] sch = "Tetradic"           -> <<90, 180, 270>>

HueSchemes == {"Analogous", "Complementary", "Triadic", "SplitComplementary",
               "Tetradic"}

\* Hex values of the shade triplet at hue h (principal, lighter, darker).
ShadeHexes(h, S, L) ==
    << hslToHex(h, S, L),
       hslToHex(h, Min2(S + 10, 100), Min2(L + 20, 90)),
       hslToHex(h, Max2(S - 10, 0), Max2(L - 20, 10)) >>

\* The base followed by one triplet per target hue, every hue reduced
\* modulo 360.
TripletsInTableOrder(hex, sch) ==
    LET hsl  == hexToHsl(hex)
        offs == HueOffsets(sch)
    IN  [k \in 1..(1 + 3 * Len(offs)) |->
            IF k = 1 THEN hex
            ELSE ShadeHexes((hsl.h + offs[((k - 2) \div 3) + 1]) % 360,
                            hsl.s, hsl.l)[((k - 2) % 3) + 1]]

\* seq without the elements equal to an earlier element.
FirstOccurrences(seq) ==
    LET keep == {i \in 1..Len(seq) : \A j \in 1..(i - 1) : seq[j] # seq[i]}
    IN  [k \in 1..Cardinality(keep) |->
            seq[CHOOSE i \in keep : Cardinality({j \in keep : j <= i}) = k]]

\* C12: for each hue-based scheme, generatePalette returns the Base entry
\* first, followed by one shade triplet per target hue in table order
\* (Analogous H+30, H-30; Complementary H+180, H+195, H+165; Triadic H+120,
\* H+240; SplitComplementary H+210, H+150; Tetradic H+90, H+180, H+270, each
\* modulo 360), minus dropped duplicates; Triadic has at most 7 entries.
C12_HueSchemeTriplets ==
    (Generated /\ scheme \in HueSchemes) =>
        /\ Len(palette) >= 1
        /\ palette[1] = Color(baseHex, "Base")
        /\ Hexes(palette) = FirstOccurrences(TripletsInTableOrder(baseHex, scheme))
        /\ scheme = "Triadic" => Len(palette) <= 7

\* A Triadic palette of full size whose second target hue wraps past 360.
C12_Witness ==
    /\ Generated
    /\ scheme = "Triadic"
    /\ hexToHsl(baseHex).h + 240 >= 360
    /\ Len(palette) = 7
    /\ palette[1].hex = baseHex
    /\ palette[5].hex = hslToHex((hexToHsl(baseHex).h + 240) % 360,
                                 hexToHsl(baseHex).s, hexToHsl(baseHex).l)

\* C13: for every target hue h and base saturation S and lightness L, the
\* shade-triplet expansion emits exactly three entries in this order:
\* principal (h, S, L), lighter (h, min(S+10,100), min(L+20,90)), darker
\* (h, max(S-10,0), max(L-20,10)), each with a distinct label.
C13_ShadeTriplet ==
    (callPc = "returned" /\ callee = "getShades") =>
        LET h == callArgs[1]
            S == callArgs[3]
            L == callArgs[4]
        IN  /\ Len(callResult) = 3
            /\ Hexes(callResult) = ShadeHexes(h, S, L)
            /\ \A i, j \in 1..3 :
                  i # j => callResult[i].description # callResult[j].description

\* A call whose lighter and darker entries are both clamped in lightness.
C13_Witness ==
    /\ callPc = "returned"
    /\ callArgs = <<120, "Triadico 1", 95, 5>>
    /\ Hexes(callResult) = << hslToHex(120, 95, 5), hslToHex(120, 100, 25),
                              hslToHex(120, 85, 10) >>
    /\ callResult[1].description = "Triadico 1"

\* C14: normalizeHue(h) equals h mod 360 and lies in [0,360) for every
\* integer h, negative values included (normalizeHue(-30) = 330,
\* normalizeHue(360) = 0).
C14_NormalizeHueMod ==
    (callPc = "returned" /\ callee = "normalizeHue") =>
        /\ callResult \in 0..359
        /\ \E q \in (0 - HueRange)..HueRange : callArgs[1] = 360 * q + callResult
        /\ callArgs[1] = -30 => callResult = 330
        /\ callArgs[1] = 360 => callResult = 0

C14_Witness ==
    /\ callPc = "returned"
    /\ callArgs = <<-30>>
    /\ callResult = 330

-----------------------------------------------------------------------------
(* Properties of the accessibility metrics                                 *)

\* a / b < c / d for positive integers, by comparing the continued-fraction
\* expansions (no product is formed).
RECURSIVE FracLess(_, _, _, _)
FracLess(a, b, c, d) ==
    IF a \div b # c \div d THEN a \div b < c \div d
    ELSE IF c % d = 0 THEN FALSE
    ELSE IF a % b = 0 THEN TRUE
    ELSE FracLess(d, c % d, b, a % b)

\* The contrast ratio x is lower than the contrast ratio y.
RatioLess(x, y) == FracLess(x.num, x.den, y.num, y.den)

\* '#' and six hex digits.
IsSixDigitHex(hex) == Len(hex) = 7 /\ IsValidHex(hex)

TextReturned ==
    /\ callPc = "returned"
    /\ callee \in {"getContrastText", "getTextColor"}
    /\ IsSixDigitHex(callArgs[1])

IsWhiteText(str) == str \in {White, WhiteLower}

\* C16 as stated: for every 6-digit hex background, readableTextColor
\* returns whichever of black and white has the higher WCAG contrast ratio
\* against the background.
C16_HigherContrastChosen ==
    TextReturned =>
        LET onBlack == getContrastRatio(callArgs[1], Black)
            onWhite == getContrastRatio(callArgs[1], White)
        IN  /\ callResult = Black \/ IsWhiteText(callResult)
            /\ callResult = Black => ~RatioLess(onBlack, onWhite)
            /\ IsWhiteText(callResult) => ~RatioLess(onWhite, onBlack)

\* C16 amended: for every 6-digit hex background, readableTextColor returns
\* black or white, and whenever it returns black, black has the higher
\* WCAG contrast ratio against the background (so every background on
\* which white has the higher or an equal ratio gets white).
C16_BlackOnlyWhenHigher ==
    TextReturned =>
        LET onBlack == getContrastRatio(callArgs[1], Black)
            onWhite == getContrastRatio(callArgs[1], White)
        IN  /\ callResult = Black \/ IsWhiteText(callResult)
            /\ callResult = Black => RatioLess(onWhite, onBlack)
            /\ ~RatioLess(onWhite, onBlack) => IsWhiteText(callResult)

\* getTextColor answers black for #808080, whose luminance is below 0.5, and
\* black has the higher ratio there.
C16_Witness ==
    /\ TextReturned
    /\ callee = "getTextColor"
    /\ callArgs[1] = <<"#","8","0","8","0","8","0">>
    /\ callResult = Black
    /\ RatioLess(getContrastRatio(callArgs[1], White),
                 getContrastRatio(callArgs[1], Black))

\* C17: readableTextColor returns "#000000" exactly when the background's
\* relative luminance is above 0.5 and "#FFFFFF" when it is at or below 0.5;
\* in particular readableTextColor("#FFFFFF") = "#000000" and
\* readableTextColor("#000000") = "#FFFFFF".
C17_LuminanceThreshold ==
    TextReturned =>
        /\ callResult = Black <=> getLuminance(callArgs[1]) > LuminanceHalf
        /\ getLuminance(callArgs[1]) <= LuminanceHalf => callResult = White
        /\ callArgs[1] = White => callResult = Black
        /\ callArgs[1] = Black => callResult = White

\* getContrastRatio has returned from a call on two colours, each a valid
\* hex string of three or six digits.
RatioReturned ==
    /\ callPc = "returned"
    /\ callee = "getContrastRatio"
    /\ IsValidHex(callArgs[1])
    /\ IsValidHex(callArgs[2])

\* C18: for all colours A and B, contrastRatio(A, B) = contrastRatio(B, A)
\* and the value lies in [1, 21]: it is exactly 1 when A = B and exactly 21
\* for black against white.
C18_RatioSymmetricBounded ==
    RatioReturned =>
        /\ ~IsNaN(callResult.num)
        /\ callResult = getContrastRatio(callArgs[2], callArgs[1])
        /\ callResult.den > 0
        /\ ~FracLess(callResult.num, callResult.den, 1, 1)
        /\ ~FracLess(21, 1, callResult.num, callResult.den)
        /\ callArgs[1] = callArgs[2] => callResult.num = callResult.den
        /\ {callArgs[1], callArgs[2]} = {Black, White} =>
              (callResult.num \div 21 = callResult.den /\ callResult.num % 21 = 0)

-----------------------------------------------------------------------------
(* Properties of the converter                                             *)

Converted == convPc \in {"hsl", "back"}

IsGrey(hex) ==
    /\ Len(hex) = 7
    /\ ChannelsOf(hex)[1] = ChannelsOf(hex)[2]
    /\ ChannelsOf(hex)[2] = ChannelsOf(hex)[3]

\* C6 as stated: for every 6-digit hex X, hslToHex(hexToHsl(X)) differs from
\* X by at most 1 in each of the R, G and B channels.
C6_RoundTripWithinOne ==
    (convPc = "back" /\ Len(convHex) = 7) => ChannelDist(convBack, convHex) <= 1

\* C6 amended: for every 6-digit hex X, hslToHex(hexToHsl(X)) differs from X
\* by at most 5 in each of the R, G and B channels.
C6_RoundTripWithinFive ==
    (convPc = "back" /\ Len(convHex) = 7) => ChannelDist(convBack, convHex) <= 5

C6_Witness ==
    /\ convPc = "back"
    /\ Len(convHex) = 7
    /\ ChannelDist(convBack, convHex) = 5

\* C7 as stated: for every achromatic 6-digit hex X, hexToHsl(X) has h = 0
\* and s = 0, and hslToHex(hexToHsl(X)) has exactly the channel values of X.
C7_GreyRoundTripExact ==
    (convPc = "back" /\ IsGrey(convHex)) =>
        /\ convHsl.h = 0
        /\ convHsl.s = 0
        /\ ChannelsOf(convBack) = ChannelsOf(convHex)

\* C7 amended: for every achromatic 6-digit hex X, hexToHsl(X) has h = 0 and
\* s = 0, and hslToHex(hexToHsl(X)) is a grey whose channel value differs
\* from that of X by at most 1.
C7_GreyRoundTripWithinOne ==
    (convPc = "back" /\ IsGrey(convHex)) =>
        /\ convHsl.h = 0
        /\ convHsl.s = 0
        /\ IsGrey(convBack)
        /\ ChannelDist(convBack, convHex) <= 1

C7_Witness ==
    /\ convPc = "back"
    /\ IsGrey(convHex)
    /\ convHsl.h = 0
    /\ convHsl.s = 0
    /\ ChannelDist(convBack, convHex) = 1

\* C15: hexToHsl is total on strings of the wrong length: for any input
\* whose length is neither 4 nor 7 it returns the fixed fallback
\* {h:0, s:0, l:0} and never raises.
C15_WrongLengthFallback ==
    (Converted /\ Len(convHex) \notin {4, 7}) =>
        convHsl = [h |-> 0, s |-> 0, l |-> 0]

C15_Witness ==
    /\ convPc = "hsl"
    /\ convHex = <<"#","F","F","0","0","0","0","1">>
    /\ convHsl = [h |-> 0, s |-> 0, l |-> 0]

\* C8: for every well-formed 3- or 6-digit hex input, hexToHsl returns
\* integers with 0 <= h < 360, 0 <= s <= 100 and 0 <= l <= 100.
C8_HslRanges ==
    (Converted /\ IsValidHex(convHex)) =>
        /\ convHsl.h \in 0..359
        /\ convHsl.s \in 0..100
        /\ convHsl.l \in 0..100

-----------------------------------------------------------------------------
(* Properties of the ColorPaletteGenerator component and the ThemeProvider *)

\* The colours of pal.colors, as a set.
Members(pal) == {pal.colors[i] : i \in 1..Len(pal.colors)}

\* The palettes the application created, as against those it saved from
\* the component: the default palette and the palette handleGenerateNew
\* has just generated, which is the provider's current palette and the
\* first of its collection.
CreatedPalettes ==
    {defaultPalette}
    \cup (IF lastEvent = "generateNew" THEN {themePalette, palettes[1]} ELSE {})

BlackOrWhiteLower == {<<"#","0","0","0","0","0","0">>,
                      <<"#","f","f","f","f","f","f">>}

\* C19 as stated: in the provider's current palette and in the component's
\* current palette each of the roles primary, secondary, accent, background
\* and text is bound to a member of the palette's colors.
C19_AllRolesMembers ==
    \A pal \in {themePalette, currentPalette} :
        /\ pal.primary \in Members(pal)
        /\ pal.secondary \in Members(pal)
        /\ pal.accent \in Members(pal)
        /\ pal.background \in Members(pal)
        /\ pal.text \in Members(pal)

\* C19, amended: in the default palette and in every randomly generated
\* palette each of primary, secondary and accent is bound to a member of
\* colors, while background and text are bound to fixed colours that need
\* not be members ('#ffffff' and '#111827' in the default palette; in a
\* random palette text is black or lowercase white and background is
\* '#111827' under white text, '#f9fafb' under black text); right after a
\* colour is selected the current palette has that colour as primary, and
\* black or lowercase white as both secondary and text.
C19_RolesBound ==
    /\ \A pal \in CreatedPalettes :
          /\ pal.primary \in Members(pal)
          /\ pal.secondary \in Members(pal)
          /\ pal.accent \in Members(pal)
          /\ \/ pal = defaultPalette
             \/ /\ pal.text \in BlackOrWhiteLower
                /\ pal.background =
                      (IF pal.text = WhiteLower THEN Gray900 ELSE Gray50)
    /\ lastEvent = "select" =>
          /\ currentPalette.primary = baseColor
          /\ currentPalette.secondary \in BlackOrWhiteLower
          /\ currentPalette.text = currentPalette.secondary

\* A colour has been selected while the provider holds a randomly generated
\* palette.
C19_Witness ==
    /\ lastEvent = "select"
    /\ themePalette.name = "Palette 2"
    /\ themePalette.background \notin Members(themePalette)
    /\ currentPalette.text \notin Members(currentPalette)

\* C20: once the palette effect has run, whenever the base colour is not a
\* valid 3- or 6-digit hex the generated palette is empty and the prompt
\* asking for a valid hex value is rendered instead of the colour grid.
C20_InvalidBaseShowsPrompt ==
    (~effectPending /\ ~IsValidHex(baseColor)) =>
        (generatedPalette = <<>> /\ RendersPrompt)

-----------------------------------------------------------------------------
(* Properties of the ThemeProvider and the store                           *)

\* The names of a collection, in order.
Names(saved) == [i \in 1..Len(saved) |-> saved[i].name]

\* A collection with every palette called name taken out, the others left
\* in their order.
RECURSIVE Without(_, _)
Without(saved, name) ==
    IF saved = <<>> THEN <<>>
    ELSE IF Head(saved).name = name THEN Without(Tail(saved), name)
    ELSE <<Head(saved)>> \o Without(Tail(saved), name)

\* What a deletePalette(name) step does to a collection.
DeletedByName(before, after, name) ==
    /\ after = Without(before, name)
    /\ \A i \in 1..Len(after) : after[i].name # name
    /\ (\A i \in 1..Len(before) : before[i].name # name) => after = before

\* C21: deletePalette(name), of the provider and of the store, removes from
\* the saved collection every palette whose name equals name and nothing
\* else: the other palettes and their relative order are unchanged, and
\* deleting a name that is not present leaves the collection unchanged.
C21_DeleteByName ==
    [][ /\ (opCount' = opCount + 1 /\ lastOp'.op = "deletePalette") =>
             DeletedByName(palettes, palettes', lastOp'.name)
        /\ (opCount' = opCount + 1 /\ lastOp'.op = "store.deletePalette") =>
             DeletedByName(storePalettes, storePalettes', lastOp'.name) ]_vars

\* A deletePalette has removed the first palette of a collection and kept
\* another one.
C21_Witness ==
    /\ lastOp.op \in {"deletePalette", "store.deletePalette"}
    /\ lastOp.before = 2
    /\ \/ lastOp.op = "deletePalette" /\ Names(palettes) = <<"Default">>
       \/ lastOp.op = "store.deletePalette"
            /\ Names(storePalettes) = <<"Palette 2">>

\* C23: no two palettes in the provider's saved collection have the same
\* name.
C23_NamesDistinct ==
    \A i, j \in 1..Len(palettes) :
        i # j => palettes[i].name # palettes[j].name

\* C24: a savePalette call of the store that supplies no name adds a new
\* entry, the collection growing by one, and replaces no saved palette.
C24_UnnamedSaveAdds ==
    [][ (/\ opCount' = opCount + 1
         /\ lastOp'.op = "store.savePalette"
         /\ lastOp'.name = "") =>
            /\ Len(storePalettes') = Len(storePalettes) + 1
            /\ \A i \in 1..Len(storePalettes) :
                  storePalettes'[i] = storePalettes[i] ]_vars

\* The provider's current palette is a member of the saved collection or
\* the default palette.
CurrentSavedOrDefault ==
    \/ \E i \in 1..Len(palettes) : palettes[i] = themePalette
    \/ themePalette = defaultPalette

\* C25: the provider's current palette is a member of the saved collection
\* or the default palette at the start and for as long as every step is
\* one of generateNewPalette, savePalette and deletePalette of the provider
\* or leaves the provider's palettes alone (each of the three keeps it so,
\* a setCurrentPalette need not); and a deletePalette of the current
\* palette's name makes the first remaining palette current, or the
\* default palette when none remains.
C25_CurrentSavedOrDefault ==
    /\ CurrentSavedOrDefault
    /\ [][ (/\ CurrentSavedOrDefault
            /\ ~(opCount' = opCount + 1 /\ lastOp'.op = "setCurrentPalette")) =>
               CurrentSavedOrDefault' ]_vars
    /\ [][ (/\ opCount' = opCount + 1
            /\ lastOp'.op = "deletePalette"
            /\ lastOp'.name = themePalette.name) =>
               themePalette' = (IF palettes' = <<>> THEN defaultPalette
                                ELSE palettes'[1]) ]_vars

\* The only saved palette, the current one, has been deleted.
C25_Witness ==
    /\ lastOp = [op |-> "deletePalette", name |-> "Palette 2", before |-> 1]
    /\ palettes = <<>>
    /\ themePalette = defaultPalette

\* C26: once the darkMode effect has run, the document root carries the
\* class 'dark' exactly when the provider's darkMode, the value written to
\* localStorage, is true.
C26_DarkClassFollowsState ==
    ~darkEffectPending =>
        /\ rootDark = darkMode
        /\ localDarkMode = StringifyBool(darkMode)

-----------------------------------------------------------------------------
(* Properties of debounce                                                  *)

\* The call of the debounced function that is still to run, if any: the
\* last entry of the log when it is a call.
LastIsCall == dbLog # <<>> /\ dbLog[Len(dbLog)].kind = "call"

\* C22: func runs only once wait has elapsed after the most recent call,
\* with the arguments of that call and once for it: every run in the log
\* directly follows a call, with no call or run in between, that was made
\* at least wait earlier with the same arguments; so a call followed by
\* another call never runs.  The most recent call stays pending until it
\* runs: exactly one timer, its own, is set while it has not run, and none
\* afterwards.
C22_DebounceRunsLastCallOnce ==
    /\ \A i \in 1..Len(dbLog) :
          dbLog[i].kind = "run" =>
              /\ i > 1
              /\ dbLog[i - 1].kind = "call"
              /\ dbLog[i - 1].args = dbLog[i].args
              /\ dbLog[i].time - dbLog[i - 1].time >= dbWait
    /\ IF LastIsCall
       THEN /\ Cardinality(dbTimers) = 1
            /\ \A t \in dbTimers :
                  /\ t.id = dbTimeout
                  /\ t.args = dbLog[Len(dbLog)].args
                  /\ t.due = dbLog[Len(dbLog)].time + dbWait
       ELSE dbTimers = {}

\* Two bursts: a call cancelled by a second call, a run of the second
\* call's arguments, then a further call and its run.
C22_Witness ==
    /\ dbWait = 2
    /\ [i \in 1..Len(dbLog) |-> dbLog[i].kind]
          = <<"call", "call", "run", "call", "run">>
    /\ dbLog[1].args # dbLog[2].args
    /\ dbLog[2].time > dbLog[1].time

-----------------------------------------------------------------------------
(* Properties of the palette import                                         *)

\* A reader has just delivered the file it was reading, importRead'.file,
\* or has just failed to read it.
FileLoaded ==
    /\ Len(importReaders') < Len(importReaders)
    /\ lastEvent' \in {"load", "error"}

\* C27: a read that fails and a file that cannot be parsed, is not an
\* object, has no colors array or an empty one, or has no valid hex among
\* its colors leave currentPalette and baseColor as they were, whatever
\* other reads are under way; any other file sets currentPalette to a
\* palette whose colors all pass the hex pattern, and baseColor to the
\* first of them.
C27_ImportOnlyValid ==
    [][FileLoaded =>
         IF lastEvent' = "error" \/ importRead'.file.kind # "valid"
         THEN currentPalette' = currentPalette /\ baseColor' = baseColor
         ELSE /\ Len(currentPalette'.colors) > 0
              /\ \A i \in 1..Len(currentPalette'.colors) :
                    IsValidHex(currentPalette'.colors[i])
              /\ baseColor' = currentPalette'.colors[1]]_vars

\* A file with valid and invalid colours has been imported while another
\* reader is still reading: the palette holds fewer colours than the file.
C27_Witness ==
    /\ importRead.state = "imported"
    /\ lastEvent = "load"
    /\ Len(importReaders) = 1
    /\ Len(currentPalette.colors) < Len(importRead.file.properties.colors)

-----------------------------------------------------------------------------
(* Properties of the store's generators                                    *)

StoreGenReturned ==
    /\ callPc = "returned"
    /\ callee \in {"generateMonochromatic", "generateLuminosityContrast"}

\* C28 as stated: the hue generateMonochromatic and
\* generateLuminosityContrast hand to hslToHex, the hue of the base colour,
\* lies in 0..359, and no colour returned for a base colour of saturation
\* 50 or more is a grey.
C28_HueKept ==
    StoreGenReturned =>
        LET baseHsl == storeHexToHsl(callArgs[1])
        IN  /\ baseHsl.h \in 0..359
            /\ baseHsl.s >= 50 =>
                  \A i \in 1..Len(callResult) : ~IsGrey(callResult[i])

-----------------------------------------------------------------------------
(* Properties of the lightness of a shade triplet                          *)

\* The lightness, in percent, of entry i of the triplet returned.
ShadeLightness(i) == hexToHsl(callResult[i].hex).l

\* C29 as stated: in the triplet getShades returns, the entry labelled
\* (Luminoso) is at least as light as the principal entry and the entry
\* labelled (Scuro) at most as light.
C29_LighterAboveDarkerBelow ==
    (callPc = "returned" /\ callee = "getShades") =>
        /\ ShadeLightness(2) >= ShadeLightness(1)
        /\ ShadeLightness(3) <= ShadeLightness(1)

-----------------------------------------------------------------------------
(* Properties of the ColorCard                                             *)

\* A call of copyToClipboard has just settled.
CopySettled == cardCopies' = cardCopies - 1 /\ cardLast'.op = "settle"

\* C30 as stated: copied becomes true only when copyToClipboard resolved
\* to true; when it resolves to false copied stays false; and the promise
\* of copyToClipboard never rejects.
C30_CopiedOnlyOnSuccess ==
    [][/\ (~copied /\ copied') =>
             (CopySettled /\ cardLast'.promise.value = TRUE)
       /\ (CopySettled /\ cardLast'.promise.value = FALSE /\ ~copied) =>
             ~copied'
       /\ CopySettled => cardLast'.promise.settled = "resolved"]_vars


====
